---- MODULE Spec2Model ----
(***************************************************************************)
(* Model of the billing-helper backend (src/server.js, the variant of      *)
(* lines 818-1419: follow-up context, payer synonyms, blood-draw shortcut). *)
(*                                                                         *)
(* Text is modelled at character level.  A string is a sequence of         *)
(* characters; an ASCII character is the one-character string itself, a    *)
(* non-ASCII character is named by its code point ("U+00E4" is a-umlaut).  *)
(***************************************************************************)
EXTENDS Integers, Sequences, FiniteSets, TLC

\* ------------------------------------------------------------------------
\* Characters
\* ------------------------------------------------------------------------
LowerLetters == {"a", "b", "c", "d", "e", "f", "g", "h", "i", "j", "k", "l", "m",
                 "n", "o", "p", "q", "r", "s", "t", "u", "v", "w", "x", "y", "z"}
UpperLetters == {"A", "B", "C", "D", "E", "F", "G", "H", "I", "J", "K", "L", "M",
                 "N", "O", "P", "Q", "R", "S", "T", "U", "V", "W", "X", "Y", "Z"}
Digits == {"0", "1", "2", "3", "4", "5", "6", "7", "8", "9"}

\* JavaScript regex class \w (ASCII only) and \s (the members the model uses:
\* space, tab U+0009, line feed U+000A, no-break space U+00A0).
IsWordChar(c) == c \in LowerLetters \cup UpperLetters \cup Digits \cup {"_"}
IsSpace(c) == c \in {" ", "U+0009", "U+000A", "U+00A0"}

\* String.prototype.toLowerCase, per character.
LowerTable ==
  ("A" :> "a") @@ ("B" :> "b") @@ ("C" :> "c") @@ ("D" :> "d") @@ ("E" :> "e") @@
  ("F" :> "f") @@ ("G" :> "g") @@ ("H" :> "h") @@ ("I" :> "i") @@ ("J" :> "j") @@
  ("K" :> "k") @@ ("L" :> "l") @@ ("M" :> "m") @@ ("N" :> "n") @@ ("O" :> "o") @@
  ("P" :> "p") @@ ("Q" :> "q") @@ ("R" :> "r") @@ ("S" :> "s") @@ ("T" :> "t") @@
  ("U" :> "u") @@ ("V" :> "v") @@ ("W" :> "w") @@ ("X" :> "x") @@ ("Y" :> "y") @@
  ("Z" :> "z") @@
  ("U+00C4" :> "U+00E4") @@ ("U+00D6" :> "U+00F6") @@ ("U+00DC" :> "U+00FC") @@
  ("U+00C9" :> "U+00E9")
ToLowerChar(c) == IF c \in DOMAIN LowerTable THEN LowerTable[c] ELSE c
\* A replacement character by character; the result is built as an explicit
\* sequence (<<>> \o ...), not left as a function expression.
mapSeq(s, f(_)) == <<>> \o [i \in 1..Len(s) |-> f(s[i])]
toLowerCase(s) == mapSeq(s, ToLowerChar)

\* Unicode compatibility decomposition (String.prototype.normalize("NFKD")),
\* per character: precomposed letters split into base + combining mark,
\* compatibility characters into their ASCII expansion.
DecompTable ==
  ("U+00E4" :> <<"a", "U+0308">>) @@ ("U+00F6" :> <<"o", "U+0308">>) @@
  ("U+00FC" :> <<"u", "U+0308">>) @@ ("U+00C4" :> <<"A", "U+0308">>) @@
  ("U+00D6" :> <<"O", "U+0308">>) @@ ("U+00DC" :> <<"U", "U+0308">>) @@
  ("U+00E9" :> <<"e", "U+0301">>) @@ ("U+00C9" :> <<"E", "U+0301">>) @@
  ("U+2122" :> <<"T", "M">>) @@ ("U+00A0" :> <<" ">>)

\* Every expansion in the tables has one or two characters: the expansions are
\* laid out two slots per input character and the unused slots dropped.
expandChars(s, table) ==
  LET e(i) == IF s[i] \in DOMAIN table THEN table[s[i]] ELSE <<s[i]>>
      wide == [k \in 1..(2 * Len(s)) |->
                 LET x == e((k + 1) \div 2)
                 IN  IF k % 2 = 1 THEN x[1] ELSE IF Len(x) = 2 THEN x[2] ELSE ""]
  IN  SelectSeq(wide, LAMBDA c : c # "")

normalizeNFKD(s) == expandChars(s, DecompTable)

\* .replace(/[\u0300-\u036f]/g, ""): the combining marks, as far as used
stripCombining(s) == SelectSeq(s, LAMBDA c : c \notin {"U+0301", "U+0308"})

\* the four replace() calls: a-umlaut -> ae, o-umlaut -> oe, u-umlaut -> ue, sharp s -> ss
\* variant: no digraphs, the umlauts are left to the decomposition
foldUmlauts_none(s) == s

foldUmlauts(s) ==
  expandChars(s, ("U+00E4" :> <<"a", "e">>) @@ ("U+00F6" :> <<"o", "e">>) @@
                 ("U+00FC" :> <<"u", "e">>) @@ ("U+00DF" :> <<"s", "s">>))

\* .replace(/\s+/g, " "): every maximal run of white space becomes one blank.
collapseSpaces(s) ==
  LET keep(i) == ~IsSpace(s[i]) \/ i = 1 \/ ~IsSpace(s[i - 1])
      idx == SelectSeq([i \in 1..Len(s) |-> i], keep)
  IN  <<>> \o [k \in 1..Len(idx) |-> IF IsSpace(s[idx[k]]) THEN " " ELSE s[idx[k]]]

\* String.prototype.trim
trim(s) ==
  LET solid == {i \in 1..Len(s) : ~IsSpace(s[i])}
  IN  IF solid = {} THEN <<>>
      ELSE SubSeq(s, CHOOSE i \in solid : \A j \in solid : i <= j,
                     CHOOSE i \in solid : \A j \in solid : i >= j)

\* The maximal runs of characters satisfying keep, left to right.
runsOf(t, keep(_)) ==
  LET starts == {i \in 1..Len(t) : keep(t[i]) /\ (i = 1 \/ ~keep(t[i - 1]))}
      endOf(i) == CHOOSE j \in i..Len(t) :
                    /\ \A k \in i..j : keep(t[k])
                    /\ (j = Len(t) \/ ~keep(t[j + 1]))
      nth(k) == CHOOSE i \in starts : Cardinality({j \in starts : j < i}) = k - 1
  IN  <<>> \o [k \in 1..Cardinality(starts) |-> SubSeq(t, nth(k), endOf(nth(k)))]

\* norm(): lower case, German digraphs, NFKD without marks, non-word characters
\* to blanks, white space collapsed, trimmed.
norm(s) ==
  LET a == foldUmlauts(toLowerCase(s))
      b == stripCombining(normalizeNFKD(a))
      c == mapSeq(b, LAMBDA ch : IF IsWordChar(ch) \/ IsSpace(ch) THEN ch ELSE " ")
  IN  trim(collapseSpaces(c))

\* ------------------------------------------------------------------------
\* Regular-expression tests used by the server, on character sequences
\* ------------------------------------------------------------------------
\* String.prototype.includes / an unanchored literal regex
includes(t, p) ==
  \E i \in 1..(Len(t) - Len(p) + 1) : SubSeq(t, i, i + Len(p) - 1) = p

\* /\bp\b/ for a literal p that starts and ends with a word character
matchWord(t, p) ==
  \E i \in 1..(Len(t) - Len(p) + 1) :
     /\ SubSeq(t, i, i + Len(p) - 1) = p
     /\ (i = 1 \/ ~IsWordChar(t[i - 1]))
     /\ (i + Len(p) - 1 = Len(t) \/ ~IsWordChar(t[i + Len(p)]))
\* /\bp/ : p at the start of a word
matchWordStart(t, p) ==
  \E i \in 1..(Len(t) - Len(p) + 1) :
     /\ SubSeq(t, i, i + Len(p) - 1) = p
     /\ (i = 1 \/ ~IsWordChar(t[i - 1]))
\* /p\b/ : p at the end of a word
matchWordEnd(t, p) ==
  \E i \in 1..(Len(t) - Len(p) + 1) :
     /\ SubSeq(t, i, i + Len(p) - 1) = p
     /\ (i + Len(p) - 1 = Len(t) \/ ~IsWordChar(t[i + Len(p)]))
\* /\b(p1|p2|...)\b/ and /(p1|p2|...)/
matchAnyWord(t, ps) == \E p \in ps : matchWord(t, p)
includesAny(t, ps) == \E p \in ps : includes(t, p)

\* a b (template literal `${a} ${b}`)

\* ------------------------------------------------------------------------
\* Payer recognition
\* ------------------------------------------------------------------------
OEGK == <<"U+00D6","G","K">>
BVAEB == <<"B","V","A","E","B">>
SVS == <<"S","V","S">>
KFA == <<"K","F","A">>
KUF == <<"K","U","F">>
MEDRECH == <<"M","E","D","R","E","C","H">>

\* a value that cannot be converted to a string, such as {"toString": 1}
\* (String(raw) finds neither a callable toString nor a primitive valueOf),
\* and the TypeError the conversion throws
NonStringable == <<"{toString: 1}">>
TypeError == <<"TypeError">>

\* null, undefined and "" are all the empty sequence here: the code tells them
\* apart nowhere (raw = "" by default, `raw || null`, `!payer`).  The result is
\* a payer name, or the raw value itself when nothing matches; String(raw)
\* throws for a value that cannot be converted.  The function normalises on
\* its own: like norm(), but every character outside [a-z0-9\s] (underscore
\* and capitals too) becomes a blank.
mapToCanonicalPayer(raw) ==
  IF raw = NonStringable THEN TypeError ELSE
  LET a == foldUmlauts(toLowerCase(raw))
      b == stripCombining(normalizeNFKD(a))
      c == mapSeq(b, LAMBDA ch :
                     IF ch \in LowerLetters \cup Digits \/ IsSpace(ch) THEN ch ELSE " ")
      t == trim(collapseSpaces(c))
  IN
  IF matchAnyWord(t, {<<"o","e","g","k">>, <<"g","e","s","u","n","d","h","e","i","t","s","k","a","s","s","e">>, <<"o","e"," ","g","k">>,
                      <<"o","e","s","t","e","r","r","e","i","c","h","i","s","c","h","e"," ","g","e","s","u","n","d","h","e","i","t","s","k","a","s","s","e">>}) THEN OEGK
  ELSE IF matchAnyWord(t, {<<"b","v","a","e","b">>, <<"b","v","a">>, <<"b","e","a","m","t","e","n">>, <<"e","i","s","e","n","b","a","h","n">>, <<"b","e","r","g","b","a","u">>})
       THEN BVAEB
  ELSE IF matchAnyWord(t, {<<"s","v","s">>, <<"s","e","l","b","s","t","s","t","a","e","n","d","i","g","e","n">>, <<"b","a","u","e","r","n">>, <<"g","e","w","e","r","b","e">>}) THEN SVS
  ELSE IF matchAnyWord(t, {<<"k","f","a">>, <<"k","r","a","n","k","e","n","f","u","e","r","s","o","r","g","e">>, <<"w","i","e","n","e","r"," ","k","f","a">>}) THEN KFA
  ELSE IF matchWord(t, <<"k","u","f">>) THEN KUF
  ELSE IF matchWord(t, <<"m","e","d","r","e","c","h">>) THEN MEDRECH
  ELSE raw

\* a string value is falsy when it is null/undefined or the empty string
Falsy(v) == v = <<>>

\* mapToCanonicalPayer of the six payer names, computed once, and
\* mapToCanonicalPayer through that table
canonicalNames ==
  [p \in {OEGK, BVAEB, SVS, KFA, KUF, MEDRECH} |-> mapToCanonicalPayer(p)] @@ <<>>
canonicalOf(raw) ==
  IF raw \in DOMAIN canonicalNames THEN canonicalNames[raw] ELSE mapToCanonicalPayer(raw)

samePayer(a, b) ==
  IF Falsy(a) \/ Falsy(b) THEN FALSE
  ELSE Cardinality({canonicalOf(p) : p \in {a, b}}) = 1   \* one canonical name for both

\* PAYER_SYNONYMS in insertion order: <<canonical name, synonyms>>
PAYER_SYNONYMS == <<
  <<OEGK, <<<<"o","e","g","k">>, <<"o","g","k">>, <<"o","e"," ","g","k">>, <<"g","e","s","u","n","d","h","e","i","t","s","k","a","s","s","e">>,
            <<"o","e","s","t","e","r","r","e","i","c","h","i","s","c","h","e"," ","g","e","s","u","n","d","h","e","i","t","s","k","a","s","s","e">>, <<"k","r","a","n","k","e","n","k","a","s","s","e">>>> >>,
  <<BVAEB, <<<<"b","v","a","e","b">>, <<"b","v","a">>, <<"b","e","a","m","t","e","n">>, <<"e","i","s","e","n","b","a","h","n">>, <<"b","e","r","g","b","a","u">>>> >>,
  <<SVS, <<<<"s","v","s">>, <<"s","e","l","b","s","t","s","t","a","e","n","d","i","g","e","n">>, <<"b","a","u","e","r","n">>, <<"g","e","w","e","r","b","e">>>> >>,
  <<KFA, <<<<"k","f","a">>, <<"k","r","a","n","k","e","n","f","u","e","r","o","r","g","e">>, <<"k","r","a","n","k","e","n","f","u","e","r","o","r","g","e","a","n","s","t","a","l","t">>, <<"w","i","e","n","e","r"," ","k","f","a">>,
           <<"k","r","a","n","k","e","n","f","U+00FC","r","s","o","r","g","e">>, <<"k","r","a","n","k","e","n","f","U+00FC","r","s","o","r","g","e","a","n","s","t","a","l","t">>>> >>,
  <<KUF, <<<<"k","u","f">>>> >>,
  <<MEDRECH, <<<<"m","e","d","r","e","c","h">>>> >> >>

\* Object.values(PAYER_SYNONYMS).flat().concat(Object.keys(PAYER_SYNONYMS))
RECURSIVE payerWordsFrom(_)
payerWordsFrom(k) ==
  IF k > Len(PAYER_SYNONYMS) THEN <<>>
  ELSE PAYER_SYNONYMS[k][2] \o payerWordsFrom(k + 1)
payerWords ==
  payerWordsFrom(1) \o [k \in 1..Len(PAYER_SYNONYMS) |-> PAYER_SYNONYMS[k][1]]

\* norm() of the payer words, computed once, and norm() through that table
payerWordNorms == [w \in {payerWords[k] : k \in 1..Len(payerWords)} |-> norm(w)] @@ <<>>
normWord(w) == IF w \in DOMAIN payerWordNorms THEN payerWordNorms[w] ELSE norm(w)

\* first canonical name (in table order) one of whose words, normalised and
\* blank-delimited, occurs in the blank-delimited normalised text
extractPayerFromText(text) ==
  LET n == <<" ">> \o norm(text) \o <<" ">>
      hit(k) == \E raw \in {PAYER_SYNONYMS[k][1]}
                          \cup {PAYER_SYNONYMS[k][2][j] : j \in 1..Len(PAYER_SYNONYMS[k][2])} :
                   includes(n, <<" ">> \o normWord(raw) \o <<" ">>)
      hits == {k \in 1..Len(PAYER_SYNONYMS) : hit(k)}
  IN  IF hits = {} THEN <<>>
      ELSE PAYER_SYNONYMS[CHOOSE k \in hits : \A j \in hits : k <= j][1]

extractCanonicalPayer(text) ==
  LET p == extractPayerFromText(text) IN
  IF Falsy(p) THEN <<>> ELSE canonicalOf(p)

\* ------------------------------------------------------------------------
\* Guards
\* ------------------------------------------------------------------------
DurationWords == {<<"m","i","n">>, <<"m","i","n","u","t","e">>, <<"s","t","u","n","d","e">>, <<"s","t","u","n","d","e","n">>, <<"s","t","d">>}
ServiceKeywords == {<<"g","e","s","p","r","a","e","c","h">>, <<"a","n","g","e","h","o","r","i","g">>, <<"b","l","u","t">>, <<"h","a","r","n">>, <<"u","r","i","n">>, <<"e","k","g">>,
                    <<"l","a","b","o","r">>, <<"i","n","j","e","k">>, <<"s","o","n","o","g","r">>, <<"a","b","s","t","r","i","c","h">>, <<"c","h","e","c","k">>, <<"v","o","r","s","o","r","g","e">>,
                    <<"o","r","d","i","n","a","t","i","o","n">>}

\* a duration without context: /\b(min|minute|stunden?|std)\b/ and no
\* /\b(gespraech|...|ordination)\b/ in the normalised text
isBareDurationQuery(text) ==
  LET t == norm(text)
      hasDuration == matchAnyWord(t, DurationWords)
      hasKeywords == matchAnyWord(t, ServiceKeywords)
  IN  hasDuration /\ ~hasKeywords

\* acc.replace(new RegExp(`\\b${w}\\b`, "g"), " ")
\* The matches are taken left to right and do not overlap.
RECURSIVE matchStarts(_, _, _)
matchStarts(hits, len, from) ==
  LET rest == {i \in hits : i >= from}
  IN  IF rest = {} THEN {}
      ELSE LET i == CHOOSE x \in rest : \A y \in rest : x <= y
           IN  {i} \cup matchStarts(hits, len, i + len)
replaceWord(t, w) ==
  LET n == Len(w)
      hits == {i \in 1..(Len(t) - n + 1) :
                 /\ SubSeq(t, i, i + n - 1) = w
                 /\ (i = 1 \/ ~IsWordChar(t[i - 1]))
                 /\ (i + n - 1 = Len(t) \/ ~IsWordChar(t[i + n]))}
      starts == matchStarts(hits, n, 1)
      inside(i) == \E b \in starts : b < i /\ i < b + n
      kept == SelectSeq([i \in 1..Len(t) |-> i], LAMBDA i : ~inside(i))
  IN  <<>> \o [k \in 1..Len(kept) |-> IF kept[k] \in starts THEN " " ELSE t[kept[k]]]

RECURSIVE stripWords(_, _, _)
stripWords(acc, ws, k) ==
  IF k > Len(ws) THEN acc
  ELSE LET w == normWord(ws[k])
       IN  IF matchWord(acc, w)
           THEN stripWords(replaceWord(acc, w), ws, k + 1)
           ELSE stripWords(acc, ws, k + 1)   \* no match: replace() returns acc

\* nothing but payer words in the text
isPayerOnlyQuery(text) ==
  LET t == norm(text)
      withoutPayerWords ==
        trim(collapseSpaces(stripWords(<<" ">> \o t \o <<" ">>, payerWords, 1)))
  IN  Len(withoutPayerWords) = 0

\* ------------------------------------------------------------------------
\* Blood-draw intent and flags (on norm() text)
\* ------------------------------------------------------------------------
VenousWords == {<<"v","e","n","o","s","e">>, <<"v","e","n","o","e","s","e">>, <<"v","e","n","o","s">>, <<"v","e","n","e">>, <<"v","e","n","e","n","p","u","n","k","t","i","o","n">>,
                <<"v","e","n","e","p","u","n","k","t","i","o","n">>}
CapillaryWords == {<<"k","a","p","i","l","l","a","r">>, <<"k","a","p","i","l","l","a","r","b","l","u","t">>, <<"f","i","n","g","e","r","b","e","e","r","e">>, <<"o","h","r","l","a","e","p","p","c","h","e","n">>}

hasVenousFlag(n) == matchAnyWord(n, VenousWords)
hasCapillaryFlag(n) == matchAnyWord(n, CapillaryWords)
bloodIntent(n) ==
  \/ matchAnyWord(n, {<<"b","l","u","t","a","b","n","a","h","m","e">>, <<"b","l","u","t","a","b","n","a","h","m","e","n">>, <<"b","l","u","t","e","n","t","n","a","h","m","e">>, <<"b","l","u","t","e","n","t","n","a","h","m","e","n">>})
  \/ matchAnyWord(n, VenousWords)
  \/ matchAnyWord(n, CapillaryWords)

\* Setting named in the text (ordination / laboratory); returns the pair the
\* callers destructure.
detectSetting(n) ==
  [inOrd |-> matchAnyWord(n, {<<"o","r","d">>, <<"o","r","d","i","n","a","t","i","o","n">>}),
   inLab |-> matchWord(n, <<"l","a","b","o","r">>)]

\* ------------------------------------------------------------------------
\* State
\* ------------------------------------------------------------------------
VARIABLES
  cfg,           \* environment: OPENAI_API_KEY, SUPABASE_JWT_SECRET, ALLOWED_EMAILS,
                 \* and the catalog index file the process was started with
  sessionStore,  \* Map key -> [prompt, ts] (and by)
  now,           \* Date.now()
  reqs,          \* handlers: slot -> local variables and position
  started,       \* requests arrived so far
  last           \* the request ended by the latest step (id 0: none), with its response

vars == <<cfg, sessionStore, now, reqs, started, last>>

\* ------------------------------------------------------------------------
\* Read-only tables loaded at start-up
\* ------------------------------------------------------------------------
\* catalogs/index.json as scripts/buildCatalogIndex.js writes it: entries
\* unique in payer+pos and sorted by payer+pos; pos is 1-4 digits and an
\* optional lower-case letter.  Two index files are tried: one built from a BVAEB and
\* an OEGK catalog, and one built from an SVS catalog too, which has more
\* entries that name an EKG than findCandidates returns at its default limit
\* and one entry for each add-on.
Entry(payer, pos, title, points) ==
  [payer |-> payer, pos |-> pos, title |-> title, points |-> points, notes |-> <<>>]

IndexFile(withSVS) == <<
  Entry(BVAEB, <<"5","4">>, <<"B","l","u","t","e","n","t","n","a","h","m","e"," ","a","u","s"," ","d","e","r"," ","V","e","n","e">>, <<"4","/","I">>),
  Entry(OEGK, <<"1","c">>, <<"E","r","s","t","o","r","d","i","n","a","t","i","o","n">>, <<"2","0"," ","P">>),
  Entry(OEGK, <<"3","0","0">>, <<"E","K","G"," ","i","n"," ","R","u","h","e">>, <<"5"," ","P">>),
  Entry(OEGK, <<"5","4">>, <<"B","l","u","t","e","n","t","n","a","h","m","e"," ","a","u","s"," ","d","e","r"," ","V","e","n","e">>, <<"4","/","I">>) >> \o
  IF ~withSVS THEN <<>> ELSE <<
  Entry(SVS, <<"1","0","1">>, <<"E","K","G"," ","i","n"," ","R","u","h","e">>, <<"5"," ","P">>),
  Entry(SVS, <<"1","0","2">>, <<"E","K","G"," ","B","e","l","a","s","t","u","n","g">>, <<"9"," ","P">>),
  Entry(SVS, <<"1","0","3">>, <<"E","K","G"," ","E","r","g","o","m","e","t","r","i","e">>, <<"9"," ","P">>),
  Entry(SVS, <<"1","0","4">>, <<"E","K","G"," ","K","o","n","t","r","o","l","l","e">>, <<"3"," ","P">>),
  Entry(SVS, <<"1","0","5">>, <<"E","K","G"," ","R","h","y","t","h","m","u","s">>, <<"4"," ","P">>),
  Entry(SVS, <<"1","0","6">>, <<"E","K","G"," ","K","i","n","d","e","r">>, <<"6"," ","P">>),
  Entry(SVS, <<"1","0","7">>, <<"E","K","G"," ","H","a","u","s","b","e","s","u","c","h">>, <<"8"," ","P">>),
  Entry(SVS, <<"1","0","8">>, <<"E","K","G"," ","N","o","t","f","a","l","l">>, <<"8"," ","P">>),
  Entry(SVS, <<"1","0","9">>, <<"E","K","G"," ","M","o","n","i","t","o","r">>, <<"4"," ","P">>),
  Entry(SVS, <<"1","1","0">>, <<"E","K","G"," ","T","e","l","e","m","e","t","r","i","e">>, <<"7"," ","P">>),
  Entry(SVS, <<"1","1","1">>, <<"E","K","G"," ","A","u","s","w","e","r","t","u","n","g">>, <<"2"," ","P">>),
  Entry(SVS, <<"1","1","2">>, <<"E","K","G"," ","Z","u","s","a","t","z">>, <<"1"," ","P">>),
  Entry(SVS, <<"2","0","1">>, <<"E","r","s","t","o","r","d","i","n","a","t","i","o","n">>, <<"2","0"," ","P">>),
  Entry(SVS, <<"2","0","2">>, <<"K","o","o","r","d","i","n","a","t","i","o","n","s","z","u","s","c","h","l","a","g">>, <<"1","0"," ","P">>),
  Entry(SVS, <<"2","0","3">>, <<"B","e","f","u","n","d","b","e","r","i","c","h","t">>, <<"6"," ","P">>),
  Entry(SVS, <<"2","0","4">>, <<"L","a","n","g","e","r"," ","E","K","G"," ","S","t","r","e","i","f","e","n">>, <<"7"," ","P">>) >>

\* the index the process loaded at start-up
catalogIndex == cfg.catalog

\* scripts/rules/catalog_rules.json (optional).  An absent payer is <<>>; an
\* absent whenAll/whenAny is <<>> and a present one is <<list>>.
rules ==
  << [payer |-> OEGK, whenAll |-> <<>>, whenAny |-> << <<<<"e","k","g">>>> >>,
      prefer |-> <<<<"3","0","0">>>>],
     [payer |-> <<>>, whenAll |-> <<>>, whenAny |-> << <<<<"e","k","g">>>> >>,
      prefer |-> <<<<"1","c">>, <<"5","4">>>>] >>

\* catalogs/synonyms.json as scripts/buildSynonyms.js writes it from the
\* index file: for each word of a title its stem forms (a final "en" or "e"
\* dropped), then the domain table; normalised token -> alternatives
SynonymsFile(withSVS) ==
  (<<"b","l","u","t","e","n","t","n","a","h","m","e">> :> <<<<"b","l","u","t","e","n","t","n","a","h","m">>, <<"b","l","u","t","a","b","n","a","h","m","e">>, <<"a","b","n","a","h","m","e"," ","b","l","u","t">>, <<"v","e","n","e","n","p","u","n","k","t","i","o","n">>,
                        <<"v","e","n","e","p","u","n","k","t","i","o","n">>, <<"v","e","n","e","n","b","l","u","t">>>>) @@
  (<<"v","e","n","e">> :> <<<<"v","e","n">>>>) @@
  (<<"r","u","h","e">> :> <<<<"r","u","h">>>>) @@
  (<<"h","a","r","n","s","t","r","e","i","f","e","n","t","e","s","t">> :> <<<<"h","a","r","n","s","t","r","e","i","f","e","n">>, <<"u","r","i","n","s","t","r","e","i","f","e","n">>, <<"u","r","i","n","t","e","s","t">>, <<"c","o","m","b","i"," ","s","c","r","e","e","n">>>>) @@
  (<<"k","a","p","i","l","l","a","r">> :> <<<<"k","a","p","i","l","l","a","r","b","l","u","t">>, <<"f","i","n","g","e","r","b","e","e","r","e">>, <<"o","h","r","l","a","e","p","p","c","h","e","n">>>>) @@
  (<<"i","n","j","e","k","t","i","o","n">> :> <<<<"s","p","r","i","t","z","e">>, <<"i","n","j","e","k">>>>) @@
  IF ~withSVS THEN <<>>
  ELSE (<<"e","r","g","o","m","e","t","r","i","e">> :> <<<<"e","r","g","o","m","e","t","r","i">>>>) @@ (<<"k","o","n","t","r","o","l","l","e">> :> <<<<"k","o","n","t","r","o","l","l">>>>) @@
       (<<"t","e","l","e","m","e","t","r","i","e">> :> <<<<"t","e","l","e","m","e","t","r","i">>>>) @@ (<<"s","t","r","e","i","f","e","n">> :> <<<<"s","t","r","e","i","f">>>>)

\* the table the process loaded at start-up
SYNONYMS == cfg.synonyms

Range(s) == {s[i] : i \in 1..Len(s)}

\* the title patterns of the search and of the add-ons
BLOOD_PATTERNS == {<<"b","l","u","t","a","b","n","a","h","m","e">>, <<"b","l","u","t","a","b","n","a","h","m","e","n">>, <<"b","l","u","t","e","n","t","n","a","h","m","e">>, <<"b","l","u","t","e","n","t","n","a","h","m","e","n">>,
                   <<"e","n","t","n","a","h","m","e"," ","v","o","n"," ","b","l","u","t">>, <<"v","e","n","e">>, <<"v","e","n","o","e","s">>, <<"v","e","n","o","s","e">>, <<"v","e","n","o","e","s","e">>,
                   <<"k","a","p","i","l","l","a","r">>, <<"k","a","p","i","l","l","a","r","b","l","u","t">>, <<"f","i","n","g","e","r","b","e","e","r","e">>, <<"o","h","r","l","a","e","p","p","c","h","e","n">>}
P_ERSTORDINATION == {<<"e","r","s","t","o","r","d","i","n","a","t","i","o","n">>}
P_KOORDINATION == {<<"k","o","o","r","d","i","n","a","t","i","o","n","s","z","u","s","c","h","l","a","g">>, <<"k","o","o","r","d","i","n","a","t","i","o","n">>}
P_BEFUND == {<<"b","e","f","u","n","d","b","e","r","i","c","h","t">>, <<"b","e","f","u","n","d","-","b","e","r","i","c","h","t">>, <<"b","e","r","i","c","h","t">>}
P_LANG_EKG == {<<"l","a","n","g","e","r"," ","e","k","g">>, <<"e","k","g"," ","l","a","n","g">>, <<"l","a","n","g","s","t","r","e","i","f","e","n">>, <<"v","e","r","l","a","n","g","e","r","t","e","r"," ","e","k","g">>}

\* norm() of the titles, patterns, synonyms and rule words, computed once, and
\* norm() through that table
tableNorms ==
  [s \in
     {IndexFile(TRUE)[i].title : i \in 1..Len(IndexFile(TRUE))}
     \cup BLOOD_PATTERNS \cup {<<"b","l","u","t","e","n","t","n","a","h","m","e"," ","a","u","s"," ","d","e","r"," ","v","e","n","e">>, <<"k","a","p","i","l","l","a","r">>}
     \cup P_ERSTORDINATION \cup P_KOORDINATION \cup P_BEFUND \cup P_LANG_EKG
     \cup UNION {Range(SynonymsFile(TRUE)[k]) : k \in DOMAIN SynonymsFile(TRUE)}
     \cup UNION {IF rules[i].whenAll = <<>> THEN {} ELSE Range(rules[i].whenAll[1]) :
                   i \in 1..Len(rules)}
     \cup UNION {IF rules[i].whenAny = <<>> THEN {} ELSE Range(rules[i].whenAny[1]) :
                   i \in 1..Len(rules)}
   |-> norm(s)] @@ <<>>
normText(s) == IF s \in DOMAIN tableNorms THEN tableNorms[s] ELSE norm(s)

\* ------------------------------------------------------------------------
\* Synonym expansion
\* ------------------------------------------------------------------------
getSynonymsFor(token) ==
  LET key == norm(token) IN IF key \in DOMAIN SYNONYMS THEN SYNONYMS[key] ELSE <<>>

\* String.prototype.split(" ") followed by filter(Boolean)
splitWords(t) == runsOf(t, LAMBDA c : c # " ")

\* insertion-ordered Set: append what is not yet there
RECURSIVE addAll(_, _)
addAll(acc, xs) ==
  IF xs = <<>> THEN acc
  ELSE addAll(IF Head(xs) \in Range(acc) THEN acc ELSE Append(acc, Head(xs)), Tail(xs))

RECURSIVE joinWith(_, _)
joinWith(ws, sep) ==
  IF ws = <<>> THEN <<>>
  ELSE IF Len(ws) = 1 THEN ws[1]
  ELSE ws[1] \o sep \o joinWith(Tail(ws), sep)

RECURSIVE synonymsOfAll(_)
synonymsOfAll(toks) ==
  IF toks = <<>> THEN <<>>
  ELSE LET syn == getSynonymsFor(Head(toks))
       IN  mapSeq(syn, normText) \o synonymsOfAll(Tail(toks))

expandQueryWithSynonyms(q) ==
  LET toks == splitWords(norm(q))
      expanded == addAll(addAll(<<>>, toks), synonymsOfAll(toks))
  IN  joinWith(expanded, <<" ">>)

\* ------------------------------------------------------------------------
\* Rules
\* ------------------------------------------------------------------------
ruleMatches(text, r, payer) ==
  LET t == norm(text) IN
  IF ~Falsy(r.payer) /\ ~Falsy(payer) /\ r.payer # payer THEN FALSE
  ELSE IF r.whenAll # <<>> /\ ~(\A k \in Range(r.whenAll[1]) : includes(t, normText(k)))
       THEN FALSE
  ELSE IF r.whenAny # <<>> /\ ~(\E k \in Range(r.whenAny[1]) : includes(t, normText(k)))
       THEN FALSE
  ELSE TRUE

\* variant: the last rule that matches wins
preferredByRules_lastHit(userText, payer) ==
  LET hits == {k \in 1..Len(rules) : ruleMatches(userText, rules[k], payer)} IN
  IF hits = {} THEN <<>>
  ELSE rules[CHOOSE k \in hits : \A j \in hits : k >= j].prefer

\* prefer list of the first rule that matches
preferredByRules(userText, payer) ==
  LET hits == {k \in 1..Len(rules) : ruleMatches(userText, rules[k], payer)} IN
  IF hits = {} THEN <<>>
  ELSE rules[CHOOSE k \in hits : \A j \in hits : k <= j].prefer

\* ------------------------------------------------------------------------
\* Candidate search
\* ------------------------------------------------------------------------
ntIncludes(it, needle) == includes(normText(it.title), normText(needle))

restrictToBloodDraw(items) ==
  SelectSeq(items, LAMBDA it : \E p \in BLOOD_PATTERNS : includes(normText(it.title), normText(p)))

\* /\blabor\b/i on the raw title
titleHasLabor(it) == matchWord(toLowerCase(it.title), <<"l","a","b","o","r">>)

\* items.filter(payer) and the Ordination/Labor filter
settingFilter(items, n) ==
  LET s == detectSetting(n) IN
  IF s.inOrd /\ ~s.inLab THEN SelectSeq(items, LAMBDA it : ~titleHasLabor(it))
  ELSE IF s.inLab /\ ~s.inOrd THEN SelectSeq(items, titleHasLabor)
  ELSE items

\* variant: the catalog is not filtered by payer
payerItems_all(payer) == catalogIndex

payerItems(payer) ==
  SelectSeq(catalogIndex, LAMBDA x : Falsy(payer) \/ samePayer(x.payer, payer))

\* the filters of the pool on the normalised text nt: psych guard, blood-draw
\* narrowing, injection filter
psychGuard(items, nt) ==
  IF includesAny(toLowerCase(nt), {<<"p","s","y","c","h","o">>, <<"d","e","p","r","e","s","s">>, <<"a","n","g","s","t">>, <<"k","r","i","s","e","n","i","n","t","e","r","v","e","n","t","i","o","n">>,
                                   <<"p","s","y","c","h","o","t","h","e","r","a">>, <<"p","s","y","c","h","i","a","t","r">>})
  THEN items
  ELSE SelectSeq(items, LAMBDA it :
         ~includesAny(toLowerCase(it.title), {<<"p","s","y","c","h">>, <<"p","s","y","c","h","i","a","t","r">>, <<"p","s","y","c","h","o","t","h","e","r","a">>}))
bloodNarrow(items, nt) ==
  IF bloodIntent(nt) THEN restrictToBloodDraw(items) ELSE items
injectionFilter(items, nt) ==
  IF bloodIntent(nt) /\ ~(matchWordStart(nt, <<"i","n","j","e","k">>) \/ matchWordEnd(nt, <<"s","p","r","i","t","z","e">>))
  THEN SelectSeq(items, LAMBDA it : ~includes(toLowerCase(it.title), <<"i","n","j","e","k","t","i","o","n">>))
  ELSE items

\* the pool the fuzzy search runs on: payer, setting, psych guard, blood-draw
\* narrowing, injection filter
poolFor(nt, payer) ==
  injectionFilter(bloodNarrow(psychGuard(settingFilter(payerItems(payer), nt), nt), nt), nt)
searchPool(userText, payer) == poolFor(norm(userText), payer)

\* Fuse.search (third-party fuzzy matcher): its answer is some ranking of some
\* of the items it was built on; fuse is the ranking it gives.
fuseSearch(items, fuse) == SelectSeq(fuse, LAMBDA it : it \in Range(items))

\* token overlap: tokens longer than 2, titles counted, sorted by count
\* descending (stable), zero counts dropped
RECURSIVE byOverlapDesc(_, _, _)
byOverlapDesc(items, toks, n) ==
  IF n = 0 THEN <<>>
  ELSE SelectSeq(items, LAMBDA it :
              Cardinality({t \in toks : includes(normText(it.title), t)}) = n) \o byOverlapDesc(items, toks, n - 1)
overlapFallback(items, expandedQuery) ==
  LET toks == {t \in Range(splitWords(expandedQuery)) : Len(t) > 2}
  IN  byOverlapDesc(items, toks, Cardinality(toks))

\* preferred position codes first, relative order kept
preferReorder(found, preferCodes) ==
  IF Len(preferCodes) > 0
  THEN SelectSeq(found, LAMBDA x : x.pos \in Range(preferCodes))
       \o SelectSeq(found, LAMBDA x : x.pos \notin Range(preferCodes))
  ELSE found

\* Array.prototype.find: <<>> when nothing is found, else <<the first hit>>
firstOf(items, P(_)) ==
  LET hits == SelectSeq(items, P) IN IF hits = <<>> THEN <<>> ELSE <<hits[1]>>

\* variant: the list is returned whole
slice_all(s, limit) == s

slice(s, limit) == SubSeq(s, 1, IF Len(s) < limit THEN Len(s) ELSE limit)

DEFAULT_LIMIT == 12

\* a || b on optional values and lists: a unless it is empty
orElse(a, b) == IF a # <<>> THEN a ELSE b

\* the fuzzy search with its overlap fallback, the preferred codes first, the
\* last blood-draw guard
fuzzyFound(items, nt, userText, payer, fuse) ==
  bloodNarrow(
    preferReorder(
      orElse(fuseSearch(items, fuse),
             overlapFallback(items, expandQueryWithSynonyms(userText))),
      preferredByRules(userText, payer)),
    nt)

\* findCandidates on its pool items and its normalised text nt: the
\* deterministic "exact first" entries, else the fuzzy search
candidatesIn(items, nt, userText, payer, limit, fuse) ==
  slice(orElse(IF bloodIntent(nt) /\ hasVenousFlag(nt)
               THEN firstOf(items, LAMBDA it : ntIncludes(it, <<"b","l","u","t","e","n","t","n","a","h","m","e"," ","a","u","s"," ","d","e","r"," ","v","e","n","e">>)) ELSE <<>>,
               orElse(IF bloodIntent(nt) /\ hasCapillaryFlag(nt)
                      THEN firstOf(items, LAMBDA it : ntIncludes(it, <<"k","a","p","i","l","l","a","r">>)) ELSE <<>>,
                      fuzzyFound(items, nt, userText, payer, fuse))),
        limit)

findCandidates(userText, payer, limit, fuse) ==
  candidatesIn(searchPool(userText, payer), norm(userText), userText, payer, limit, fuse)

\* ------------------------------------------------------------------------
\* Add-ons
\* ------------------------------------------------------------------------
\* the first of items whose normalised title contains one of the patterns
titleContains(items, patterns) ==
  firstOf(items, LAMBDA it : \E p \in patterns : includes(normText(it.title), normText(p)))

\* the add-ons among the payer's items for the normalised text t
addOnsIn(items, t) ==
  LET first == \/ includesAny(t, {<<"e","r","s","t">>, <<"e","r","s","t","o","r","d">>, <<"e","r","s","t","v","o","r","s","t","e","l","l","u","n","g">>, <<"n","e","u","-","p","a","t","i","e","n","t">>})
               \/ matchWordEnd(t, <<"n","e","u">>)
      report == includesAny(t, {<<"b","e","f","u","n","d">>, <<"b","e","r","i","c","h","t">>, <<"a","r","z","t","b","r","i","e","f">>})
      longEcg == /\ includes(t, <<"e","k","g">>)
                 /\ includesAny(t, {<<"l","a","n","g">>, <<"s","t","r","e","i","f","e","n">>, <<"v","e","r","l">>, <<"m","i","n","u","t","e">>, <<"m","i","n">>,
                                    <<"2","4">>, <<"h","o","l","t","e","r">>})
  IN  (IF first
       THEN titleContains(items, P_ERSTORDINATION) \o titleContains(items, P_KOORDINATION)
       ELSE <<>>)
      \o (IF report THEN titleContains(items, P_BEFUND) ELSE <<>>)
      \o (IF longEcg THEN titleContains(items, P_LANG_EKG) ELSE <<>>)

deriveAddOns(userText, payer) == addOnsIn(payerItems(payer), norm(userText))

\* variant: the add-ons are appended without a look at the codes seen
mergeCandidates_concat(candidates, addOns) == candidates \o addOns

RECURSIVE mergeCandidates(_, _)
mergeCandidates(candidates, addOns) ==
  IF addOns = <<>> THEN candidates
  ELSE LET it == Head(addOns)
           seen == {candidates[i].pos : i \in 1..Len(candidates)}
       IN  mergeCandidates(IF it.pos \notin seen THEN Append(candidates, it) ELSE candidates,
                           Tail(addOns))

\* ------------------------------------------------------------------------
\* Early questions: the questions asked, in order (<<>> for null)
\* ------------------------------------------------------------------------

\* variant: the venous-or-capillary question is asked only with the payer
\* question
earlyQuestion_withPayerOnly(userText, payerDetected) ==
  LET n == norm(userText)
      intent == bloodIntent(n)
      vFlag == hasVenousFlag(n)
      kFlag == hasCapillaryFlag(n)
      missingPayer == Falsy(payerDetected)
      talk == /\ matchAnyWord(n, {<<"g","e","s","p","r","a","e","c","h">>, <<"a","n","g","e","h","o","e","r","i","g">>})
              /\ ~matchAnyWord(n, DurationWords \cup {<<"u","e","b","e","r"," ","2","0">>, <<"b","i","s"," ","2","0">>})
      urine == /\ matchAnyWord(n, {<<"h","a","r","n">>, <<"u","r","i","n">>, <<"s","t","r","e","i","f","e","n">>})
               /\ ~matchAnyWord(n, {<<"o","r","d">>, <<"o","r","d","i","n","a","t","i","o","n">>, <<"l","a","b","o","r">>})
      q(c, text) == IF c THEN <<text>> ELSE <<>>
      questions == q(intent /\ ~vFlag /\ ~kFlag /\ missingPayer,
                     "War es eine venoese oder kapillare Blutentnahme?")
                   \o q(intent /\ missingPayer, "Bitte gib den Versicherungstraeger an.")
                   \o q(talk, "Wie lange hat das Angehoerigengespraech gedauert?")
                   \o q(urine, "Harnstreifentest in der Ordination oder Laboruntersuchung?")
                   \o q(urine /\ missingPayer, "Bitte zusaetzlich den Versicherungstraeger angeben.")
  IN  questions

earlyQuestion(userText, payerDetected) ==
  LET n == norm(userText)
      intent == bloodIntent(n)
      vFlag == hasVenousFlag(n)
      kFlag == hasCapillaryFlag(n)
      missingPayer == Falsy(payerDetected)
      talk == /\ matchAnyWord(n, {<<"g","e","s","p","r","a","e","c","h">>, <<"a","n","g","e","h","o","e","r","i","g">>})
              /\ ~matchAnyWord(n, DurationWords \cup {<<"u","e","b","e","r"," ","2","0">>, <<"b","i","s"," ","2","0">>})
      urine == /\ matchAnyWord(n, {<<"h","a","r","n">>, <<"u","r","i","n">>, <<"s","t","r","e","i","f","e","n">>})
               /\ ~matchAnyWord(n, {<<"o","r","d">>, <<"o","r","d","i","n","a","t","i","o","n">>, <<"l","a","b","o","r">>})
      q(c, text) == IF c THEN <<text>> ELSE <<>>
      questions == q(intent /\ ~vFlag /\ ~kFlag, "War es eine venoese oder kapillare Blutentnahme?")
                   \o q(intent /\ missingPayer, "Bitte gib den Versicherungstraeger an.")
                   \o q(talk, "Wie lange hat das Angehoerigengespraech gedauert?")
                   \o q(urine, "Harnstreifentest in der Ordination oder Laboruntersuchung?")
                   \o q(urine /\ missingPayer, "Bitte zusaetzlich den Versicherungstraeger angeben.")
  IN  questions

\* ------------------------------------------------------------------------
\* Response validation
\* ------------------------------------------------------------------------
\* maximal runs of word characters of a text, in order
wordRuns(t) == runsOf(t, IsWordChar)

\* ^\d+[a-z]?$ (case-insensitive) for a run of word characters
isCodeShaped(w) ==
  /\ Len(w) >= 1
  /\ w[1] \in Digits
  /\ \A i \in 1..(Len(w) - 1) : w[i] \in Digits
  /\ w[Len(w)] \in Digits \cup LowerLetters \cup UpperLetters

\* variant: the pattern without the g flag, match() yields the first token only
usedCodes_firstOnly(output) ==
  LET m == SelectSeq(wordRuns(output), isCodeShaped)
  IN  IF m = <<>> THEN <<>> ELSE <<toLowerCase(m[1])>>

\* variant: the codes of the reply are compared as written
usedCodes_asWritten(output) ==
  addAll(<<>>, SelectSeq(wordRuns(output), isCodeShaped))

\* output.match(/\b\d+[a-z]?\b/gi), lower-cased, without repetitions
usedCodes(output) ==
  LET m == SelectSeq(wordRuns(output), isCodeShaped)
  IN  addAll(<<>>, mapSeq(m, toLowerCase))

allowedSet(candidates) == {toLowerCase(candidates[i].pos) : i \in 1..Len(candidates)}

illegalCodes(output, candidates) ==
  SelectSeq(usedCodes(output), LAMBDA c : c \notin allowedSet(candidates))

\* ------------------------------------------------------------------------
\* Follow-up context (pending prompts)
\* ------------------------------------------------------------------------
FOLLOWUP_TTL_MS == 5 * 60 * 1000

\* Map.prototype.delete / Map.prototype.set on a function whose domain is
\* the set of keys present
mapDelete(store, k) == [j \in DOMAIN store \ {k} |-> store[j]]

\* req.user.id || req.user.email || req.ip
sessionKey(user, ip) ==
  IF ~Falsy(user.id) THEN user.id ELSE IF ~Falsy(user.email) THEN user.email ELSE ip

\* variant: an entry whose age equals the TTL still counts as live
getPendingPrompt_inclusive(store, k, t) ==
  IF k \in DOMAIN store /\ t - store[k].ts <= FOLLOWUP_TTL_MS
  THEN <<store[k].prompt, store>>
  ELSE <<(<<>>), mapDelete(store, k)>>

\* getPendingPrompt: the prompt of a live entry; otherwise the key is deleted
\* and null (<<>>) returned.  Result: <<prompt, store afterwards>>.
getPendingPrompt(store, k, t) ==
  IF k \in DOMAIN store /\ t - store[k].ts < FOLLOWUP_TTL_MS
  THEN <<store[k].prompt, store>>
  ELSE <<(<<>>), mapDelete(store, k)>>

\* variant: nothing is stored
setPendingPrompt_dropped(store, k, prompt, t, by) == store

\* by: the arrival number of the request that stored the entry (bookkeeping
\* for the concurrency properties; the code stores prompt and ts only)
setPendingPrompt(store, k, prompt, t, by) ==
  [j \in DOMAIN store \cup {k} |->
     IF j = k THEN [prompt |-> prompt, ts |-> t, by |-> by] ELSE store[j]]
clearPendingPrompt(store, k) == mapDelete(store, k)

\* variant: the new input is put in front of the pending text
mergeFollowUp_newFirst(store, k, input, t) ==
  LET g == getPendingPrompt(store, k, t)
      pending == g[1]
  IN  IF ~Falsy(pending)
      THEN <<pending, trim(input \o <<" ">> \o pending), clearPendingPrompt(g[2], k)>>
      ELSE <<pending, input, g[2]>>

\* the follow-up merge of the handler: <<pending, userInput, store afterwards>>
mergeFollowUp(store, k, input, t) ==
  LET g == getPendingPrompt(store, k, t)
      pending == g[1]
  IN  IF ~Falsy(pending)
      THEN <<pending, trim(pending \o <<" ">> \o input), clearPendingPrompt(g[2], k)>>
      ELSE <<pending, input, g[2]>>

\* ------------------------------------------------------------------------
\* The handler's synchronous part, from the guards to the decision
\* ------------------------------------------------------------------------
\* step 3: payer from the body or from the text; TypeError when the body's
\* payer cannot be converted to a string (mapToCanonicalPayer throws)
requestPayer(bodyPayer, userInput) ==
  IF Falsy(bodyPayer) THEN extractCanonicalPayer(userInput)
  ELSE canonicalOf(bodyPayer)

\* step 3b: the deterministic blood-draw entry (<<>> when there is none)
matchVene(title) == matchWord(toLowerCase(title), <<"b","l","u","t","e","n","t","n","a","h","m","e"," ","a","u","s"," ","d","e","r"," ","v","e","n","e">>)
matchKap(title) == matchAnyWord(toLowerCase(title), {<<"k","a","p","i","l","l","a","r">>, <<"k","a","p","i","l","l","a","r","b","l","u","t">>})
\* the exact entry among the payer's items of the setting: vein, else
\* capillary, else the vein entry for a draw in the Ordination
exactOf(items, nt, s) ==
  orElse(orElse(IF hasVenousFlag(nt)
                THEN firstOf(items, LAMBDA it : matchVene(it.title)) ELSE <<>>,
                IF hasCapillaryFlag(nt)
                THEN firstOf(items, LAMBDA it : matchKap(it.title)) ELSE <<>>),
         IF s.inOrd /\ ~s.inLab
         THEN firstOf(items, LAMBDA it : matchVene(it.title)) ELSE <<>>)
exactFor(nt, payer) ==
  IF bloodIntent(nt) /\ ~Falsy(payer)
  THEN exactOf(settingFilter(payerItems(payer), nt), nt, detectSetting(nt))
  ELSE <<>>

\* variant: the payer's whole catalog is merged in instead of the add-ons
requestCandidates_payerCatalog(found, userInput, payer) ==
  IF ~bloodIntent(norm(userInput))
  THEN mergeCandidates(found, payerItems(payer))
  ELSE found

\* steps 3c-4: candidates for the model, add-ons merged unless blood intent
requestCandidates(found, userInput, payer) ==
  IF ~bloodIntent(norm(userInput))
  THEN mergeCandidates(found, deriveAddOns(userInput, payer))
  ELSE found

Q_UNCLEAR == "Unklar. Bitte die gewuenschte Leistung genauer beschreiben."

\* variant: no question of its own for an empty candidate list
preQuestion_earlyOnly(early, candidates) == early

\* step 5: the early question, or the "Unklar" question when there is no
\* early question and no candidate
preQuestion(early, candidates) ==
  IF early = <<>> /\ Len(candidates) = 0 THEN <<Q_UNCLEAR>> ELSE early

\* the return path taken by the synchronous part (steps 2-6):
\*   "bare"         step 2, bare-duration question
\*   "rejected"     step 3, the TypeError of mapToCanonicalPayer leaves the
\*                  handler (no try block around it): its promise rejects
\*   "payerOnly"    step 3a, payer-only question
\*   "shortcut"     step 3b, deterministic blood-draw answer
\*   "preQ"         step 5, early question or the "Unklar" question
\*   "noCandidates" step 6, 400
\*   "model"        steps 7-8, the external model is asked
Decision(branch, payer, found, candidates, questions) ==
  [branch |-> branch, payer |-> payer, found |-> found, candidates |-> candidates,
   questions |-> questions]

\* variant: only an early question stops the request
askOrProceed_proceed(payer, found, candidates, preQ) ==
  IF preQ # <<>> /\ preQ # <<Q_UNCLEAR>> THEN Decision("preQ", payer, found, candidates, preQ)
  ELSE Decision("model", payer, found, candidates, <<>>)

\* steps 5-7: the question, the 400 for no candidates, or the model
askOrProceed(payer, found, candidates, preQ) ==
  IF preQ # <<>> THEN Decision("preQ", payer, found, candidates, preQ)
  ELSE IF Len(candidates) = 0 THEN Decision("noCandidates", payer, found, candidates, <<>>)
  ELSE Decision("model", payer, found, candidates, <<>>)

\* steps 4-5 on the candidates of the request
withCandidates(userInput, payer, found, candidates) ==
  askOrProceed(payer, found, candidates,
               preQuestion(earlyQuestion(userInput, payer), candidates))

\* steps 3c-4 on the output of findCandidates
withFound(userInput, payer, found) ==
  withCandidates(userInput, payer, found, requestCandidates(found, userInput, payer))

\* step 3b on its exact entry, then the search
shortcutOrSearch(userInput, payer, exact, fuse) ==
  IF exact # <<>> THEN Decision("shortcut", payer, <<>>, exact, <<>>)
  ELSE withFound(userInput, payer, findCandidates(userInput, payer, DEFAULT_LIMIT, fuse))

\* the TypeError of step 3 leaves the handler; else step 3a on the payer of
\* the request, then steps 3b-7
withPayer(userInput, payer, fuse) ==
  IF payer = TypeError THEN Decision("rejected", NonStringable, <<>>, <<>>, <<>>)
  ELSE IF ~Falsy(payer) /\ isPayerOnlyQuery(userInput)
  THEN Decision("payerOnly", payer, <<>>, <<>>, <<>>)
  ELSE shortcutOrSearch(userInput, payer, exactFor(norm(userInput), payer), fuse)

decide(userInput, bodyPayer, fuse) ==
  IF isBareDurationQuery(userInput) THEN Decision("bare", <<>>, <<>>, <<>>, <<>>)
  ELSE withPayer(userInput, requestPayer(bodyPayer, userInput), fuse)

\* ------------------------------------------------------------------------
\* Authentication middleware
\* ------------------------------------------------------------------------
\* A bearer token: kind "none" (no Authorization: Bearer header), "invalid"
\* (jwt.verify throws: bad signature or expired) or "valid" with the payload's
\* sub and email (<<>> when the payload has none).
Token(kind, id, email) == [kind |-> kind, id |-> id, email |-> email]

\* variant: the allow-list is not consulted
requireAuth_anyEmail(tok, jwtSecretSet, allowedEmails) ==
  IF tok.kind = "none" THEN 401
  ELSE IF ~jwtSecretSet THEN 500
  ELSE IF tok.kind = "invalid" THEN 401
  ELSE 0

\* status requireAuth answers with, 0 when it calls next()
requireAuth(tok, jwtSecretSet, allowedEmails) ==
  IF tok.kind = "none" THEN 401
  ELSE IF ~jwtSecretSet THEN 500
  ELSE IF tok.kind = "invalid" THEN 401
  ELSE IF allowedEmails # {} /\ toLowerCase(tok.email) \notin allowedEmails THEN 403
  ELSE 0

\* ------------------------------------------------------------------------
\* Bounds and input sets of the model
\* ------------------------------------------------------------------------
MaxRequests == 2      \* requests that arrive in a behaviour
MaxInflight == 2      \* handlers that may wait for the model at once
MaxTicks == 2         \* clock ticks in a behaviour
MaxFuse == 1          \* length of a fuzzy-search answer
TICK_MS == 150000     \* one clock tick: half the follow-up TTL

\* callers: user u1 (allow-listed), a user whose token has no sub and an
\* e-mail in capitals (allow-listed), a user who is not allow-listed, a user
\* whose token has neither sub nor e-mail
User1 == Token("valid", <<"u","1">>, <<"a","@","x",".","a","t">>)
User2 == Token("valid", <<>>, <<"B","@","x",".","a","t">>)
User3 == Token("valid", <<"u","3">>, <<"c","@","x",".","a","t">>)
NoToken == Token("none", <<>>, <<>>)

\* a request: bearer token, client address, body.prompt, body.payer (<<>>:
\* none given); callable: body.prompt is a string, or a value whose toString
\* can be called
Request(tok, prompt) ==
  [tok |-> tok, ip |-> <<"1","0",".","0",".","0",".","1">>, prompt |-> prompt, payer |-> <<>>, callable |-> TRUE]
\* the requests tried; one has the body {"prompt": {"toString": 1}}, a truthy
\* prompt whose toString is a number, and one has such a value as its payer
Requests ==
  {Request(User1, p) : p \in {<<>>, <<" "," ">>, <<"2","0"," ","m","i","n">>, <<"2","0"," ","M","i","n","u","t","e","n">>, <<"U+00D6","G","K">>,
                              <<"U+00D6","G","K"," ","B","l","u","t","a","b","n","a","h","m","e">>, <<"V","e","n","e">>, <<"U+00D6","G","K"," ","B","l","u","t","a","b","n","a","h","m","e"," ","V","e","n","e">>,
                              <<"U+00D6","G","K"," ","E","K","G"," ","E","r","s","t","o","r","d","i","n","a","t","i","o","n">>, <<"U+00D6","G","K"," ","B","l","u","t","a","b","n","a","h","m","e"," ","O","r","d","i","n","a","t","i","o","n">>}}
  \cup {[Request(User1, <<>>) EXCEPT !.callable = FALSE]}
  \cup {[Request(User1, <<"E","K","G">>) EXCEPT !.payer = NonStringable]}
  \cup {Request(User2, <<"2","0"," ","m","i","n">>), Request(User2, <<"V","e","n","e">>)}
  \cup {Request(t, <<"2","0"," ","m","i","n">>) : t \in {User3, Token("valid", <<>>, <<>>), NoToken,
                                    Token("invalid", <<>>, <<>>)}}

\* the environment: all set; no API key and no allow-list; no JWT secret; no
\* allow-list; the index and synonym files are those without an SVS catalog
Config(apiKey, jwtSecretSet, allowedEmails) ==
  [apiKey |-> apiKey, jwtSecretSet |-> jwtSecretSet, allowedEmails |-> allowedEmails,
   catalog |-> IndexFile(FALSE), synonyms |-> SynonymsFile(FALSE)]
Configs == {Config(<<"s","k","-","p","r","o","j","-","a","b","c","d","e","f","g","h">>, TRUE, {<<"a","@","x",".","a","t">>, <<"b","@","x",".","a","t">>}),
            Config(<<>>, TRUE, {}),
            Config(<<"s","k","-","p","r","o","j","-","a","b","c","d","e","f","g","h">>, FALSE, {<<"a","@","x",".","a","t">>, <<"b","@","x",".","a","t">>}),
            Config(<<"s","k","-","p","r","o","j","-","a","b","c","d","e","f","g","h">>, TRUE, {})}
\* statuses of the external model's answer

\* duplicate-free sequences of at most MaxFuse items of the pool
FuseResults(pool) ==
  LET n == IF Len(pool) < MaxFuse THEN Len(pool) ELSE MaxFuse
  IN  {s \in UNION {[1..k -> Range(pool)] : k \in 0..n} :
         \A i, j \in DOMAIN s : i # j => s[i] # s[j]}

Slots == 1..MaxInflight

\* the request's token and the local variables of its handler; pc is "idle", "fetch" (awaiting fetch) or
\* "body" (awaiting res.text() / res.json())
IdleReq ==
  [pc |-> "idle", id |-> 0, tok |-> NoToken, key |-> <<>>, input |-> <<>>, pending |-> <<>>,
   userInput |-> <<>>, payer |-> <<>>, found |-> <<>>, candidates |-> <<>>,
   calls |-> 0, upstream |-> 0, reply |-> <<>>, overlap |-> FALSE]

\* a response: HTTP status, body kind ("output" / "error"), which text, and the
\* variable parts of the text
Resp(status, kind, tag) ==
  [status |-> status, kind |-> kind, tag |-> tag, output |-> <<>>, illegal |-> <<>>,
   questions |-> <<>>, usage |-> FALSE]

\* the record kept of an answered request: its locals, its response, the
\* branch taken, and the pending entry under its key before and after
\* (<<>> or <<entry>>)
Answered(req, branch, resp, before, after) ==
  [id |-> req.id, tok |-> req.tok, key |-> req.key, input |-> req.input,
   pending |-> req.pending, userInput |-> req.userInput, payer |-> req.payer, found |-> req.found,
   candidates |-> req.candidates, calls |-> req.calls, upstream |-> req.upstream,
   reply |-> req.reply, overlap |-> req.overlap,
   branch |-> branch, resp |-> resp, before |-> before, after |-> after]

entryOf(store, k) == IF k \in DOMAIN store THEN <<store[k]>> ELSE <<>>

NoAnswer == Answered(IdleReq, "", Resp(0, "", ""), <<>>, <<>>)

Init ==
  /\ cfg \in Configs
  /\ sessionStore = <<>>
  /\ now = 0
  /\ reqs = [s \in Slots |-> IdleReq]
  /\ started = 0
  /\ last = NoAnswer

\* ------------------------------------------------------------------------
\* POST /api/abrechnen: requireAuth and the handler up to its first await
\* ------------------------------------------------------------------------
\* variant: the API key is checked before the prompt
inputCheck_keyFirst(input, apiKey) ==
  IF Falsy(apiKey) THEN 500 ELSE IF Falsy(input) THEN 400 ELSE 0

\* step 1: 400 without a prompt, 500 without an API key, 0 to go on
inputCheck(input, apiKey) ==
  IF Falsy(input) THEN 400 ELSE IF Falsy(apiKey) THEN 500 ELSE 0

\* what the synchronous part leaves behind: the handler's locals, the branch
\* taken, the response (status 0: none yet, the handler awaits fetch) and the
\* store
Outcome(req, branch, resp, store) ==
  [req |-> req, branch |-> branch, resp |-> resp, store |-> store]
Question(tag, questions) == [Resp(200, "output", tag) EXCEPT !.questions = questions]

\* the return of steps 2-8 for the decision d, the store being store1 after
\* the merge; the locals payer, found and candidates are those of d
respond(req, d, store1, t) ==
  [ CASE d.branch = "bare" ->
           Outcome(req, "bare", Question("bareDuration", <<>>),
                   setPendingPrompt(store1, req.key, req.userInput, t, req.id))
      [] d.branch = "rejected" ->
           Outcome(req, "rejected", Resp(0, "", ""), store1)
      [] d.branch = "payerOnly" ->
           Outcome(req, "payerOnly", Question("payerOnly", <<>>),
                   setPendingPrompt(store1, req.key, <<"(">> \o d.payer \o <<")">>, t, req.id))
      [] d.branch = "shortcut" ->
           Outcome(req, "shortcut", Resp(200, "output", "table"), store1)
      [] d.branch = "preQ" ->
           Outcome(req, "preQ", Question("preQ", d.questions),
                   setPendingPrompt(store1, req.key, req.userInput, t, req.id))
      [] d.branch = "noCandidates" ->
           Outcome(req, "noCandidates", Resp(400, "error", "noCandidates"),
                   setPendingPrompt(store1, req.key, req.userInput, t, req.id))
      [] d.branch = "model" ->
           Outcome([req EXCEPT !.pc = "fetch", !.calls = 1], "model", Resp(0, "", ""), store1)
    EXCEPT !.req.payer = d.payer, !.req.found = d.found, !.req.candidates = d.candidates ]

\* the handler from the follow-up merge m = <<pending, userInput, store>> on
merged(req, m, bodyPayer, fuse, t) ==
  respond([req EXCEPT !.pending = m[1], !.userInput = m[2]],
          decide(m[2], bodyPayer, fuse), m[3], t)

\* requireAuth with result auth, then the handler on the trimmed prompt;
\* callable = FALSE: prompt.toString() throws a TypeError in step 1, outside
\* the try block, and the handler's promise rejects
authorised(req, auth, callable, key, input, store, t, bodyPayer, fuse) ==
  IF auth # 0 THEN Outcome(req, "auth", Resp(auth, "error", "auth"), store)
  ELSE IF ~callable THEN Outcome(req, "rejected", Resp(0, "", ""), store)
  ELSE IF inputCheck(input, cfg.apiKey) = 400
       THEN Outcome([req EXCEPT !.key = key, !.input = input], "noPrompt",
                    Resp(400, "error", "prompt"), store)
  ELSE IF inputCheck(input, cfg.apiKey) = 500
       THEN Outcome([req EXCEPT !.key = key, !.input = input], "noApiKey",
                    Resp(500, "error", "apiKey"), store)
  ELSE merged([req EXCEPT !.key = key, !.input = input],
              mergeFollowUp(store, key, input, t), bodyPayer, fuse, t)

syncPart(store, t, id, tok, ip, prompt, callable, bodyPayer, fuse) ==
  authorised([IdleReq EXCEPT !.id = id, !.tok = tok],
             requireAuth(tok, cfg.jwtSecretSet, cfg.allowedEmails), callable,
             sessionKey(tok, ip), trim(prompt), store, t, bodyPayer, fuse)

\* the request r0 as the handler sees it at time now, Fuse answering fuse
sync(r0, fuse) ==
  syncPart(sessionStore, now, started + 1, r0.tok, r0.ip, r0.prompt, r0.callable,
           r0.payer, fuse)

\* the synchronous part has ended with outcome r: the handler in slot s
\* awaits fetch, or the handler's promise rejected (in step 1 on the prompt,
\* or in step 3 on the payer, after the follow-up merge), or the request is
\* answered.  Nothing in server.js handles a rejected handler promise: the
\* router drops it and node ends the process on the unhandled rejection
\* (tag "exit": the pending map and the suspended handlers are gone and no
\* request is served any more); or, unhandled rejections only warned about,
\* the request stays unanswered (status 0); or a router that awaits the
\* handler has its default error handler answer 500.
\* (overlap is bookkeeping for the properties of requests served alone:
\* flagged marks the suspended handlers of the session key of an arriving
\* request that gets as far as the pending map)
flagged(k) ==
  [t \in Slots |-> IF reqs[t].pc # "idle" /\ reqs[t].key = k
                   THEN [reqs[t] EXCEPT !.overlap = TRUE] ELSE reqs[t]]
arrived(s, r) ==
  /\ started' = started + 1
  /\ IF r.branch = "model"
     THEN /\ sessionStore' = r.store
          /\ reqs' = [flagged(r.req.key) EXCEPT
                        ![s] = [r.req EXCEPT !.overlap = (\E t \in Slots : reqs[t].pc # "idle" /\ reqs[t].key = r.req.key)]]
          /\ last' = NoAnswer
     ELSE IF r.branch = "rejected"
     THEN \/ /\ sessionStore' = <<>>
             /\ reqs' = [t \in Slots |-> IdleReq]
             /\ last' = Answered(r.req, "rejected", Resp(0, "", "exit"), <<>>, <<>>)
          \/ /\ sessionStore' = r.store
             /\ reqs' = flagged(r.req.key)
             /\ \E st \in {0, 500} :
                  last' = Answered(r.req, "rejected",
                                   IF st = 0 THEN r.resp ELSE Resp(500, "html", "default"),
                                   entryOf(sessionStore, r.req.key),
                                   entryOf(r.store, r.req.key))
     ELSE /\ sessionStore' = r.store
          /\ reqs' = IF r.branch \in {"noPrompt", "noApiKey"} THEN reqs
                     ELSE flagged(r.req.key)
          /\ last' = Answered([r.req EXCEPT !.overlap = (\E t \in Slots : reqs[t].pc # "idle" /\ reqs[t].key = r.req.key)],
                              r.branch, r.resp,
                              entryOf(sessionStore, r.req.key),
                              entryOf(r.store, r.req.key))

\* what the fuzzy search answers is chosen only when the handler gets to the
\* search (the paths that end in steps 5-8); r1 is the outcome with an empty
\* answer
arriveWith(s, r0, r1) ==
  \E fuse \in FuseResults(IF r1.branch \in {"preQ", "noCandidates", "model"}
                          THEN searchPool(r1.req.userInput, r1.req.payer)
                          ELSE <<>>) :
    arrived(s, IF fuse = <<>> THEN r1 ELSE sync(r0, fuse))

Arrive(s) ==
  /\ last = NoAnswer
  /\ reqs[s].pc = "idle"
  /\ \A j \in Slots : j < s => reqs[j].pc # "idle"
  /\ started < MaxRequests
  /\ \E r0 \in Requests : arriveWith(s, r0, sync(r0, <<>>))
  /\ UNCHANGED <<cfg, now>>

\* ------------------------------------------------------------------------
\* The handler after its awaits
\* ------------------------------------------------------------------------
\* the handler in slot s answers (req: its locals then) and the slot is free
\* again
answer(s, req, branch, resp, store) ==
  /\ sessionStore' = store
  /\ last' = Answered(req, branch, resp, entryOf(sessionStore, req.key),
                      entryOf(store, req.key))
  /\ reqs' = [reqs EXCEPT ![s] = IdleReq]

\* variant: the catch block answers 500 and stores nothing
caught_noPending(s) ==
  answer(s, reqs[s], "caught", Resp(500, "error", "exception"), sessionStore)

\* the catch block: the prompt is kept as pending, 500 with the message
caught(s) ==
  answer(s, reqs[s], "caught", Resp(500, "error", "exception"),
         setPendingPrompt(sessionStore, reqs[s].key, reqs[s].userInput, now, reqs[s].id))

\* variant: a rejected fetch is tried once more
FetchSettles_retry(s) ==
  /\ last = NoAnswer
  /\ reqs[s].pc = "fetch"
  /\ \/ /\ reqs[s].calls < 2
        /\ reqs' = [reqs EXCEPT ![s].calls = @ + 1]
        /\ UNCHANGED <<sessionStore, last>>
     \/ caught(s)
     \/ \E st \in {200, 429, 500} :
          /\ reqs' = [reqs EXCEPT ![s].pc = "body", ![s].upstream = st]
          /\ UNCHANGED <<sessionStore, last>>
  /\ UNCHANGED <<cfg, now, started>>

\* await fetch(...) settles: it rejects (network error) or resolves to a
\* response with a status
FetchSettles(s) ==
  /\ last = NoAnswer
  /\ reqs[s].pc = "fetch"
  /\ \/ caught(s)
     \/ \E st \in {200, 429, 500} :
          /\ reqs' = [reqs EXCEPT ![s].pc = "body", ![s].upstream = st]
          /\ UNCHANGED <<sessionStore, last>>
  /\ UNCHANGED <<cfg, now, started>>

\* step 9, soft validation, and step 10; content is
\* choices[0].message.content and output the same, trimmed
validated(s, content, output) ==
  LET req == [reqs[s] EXCEPT !.reply = content]
      illegal == illegalCodes(output, req.candidates)
  IN  IF Len(illegal) > 0
      THEN answer(s, req, "clarification",
                  [Resp(200, "output", "clarification") EXCEPT !.illegal = illegal,
                                                               !.usage = TRUE],
                  setPendingPrompt(sessionStore, req.key, req.userInput, now, req.id))
      ELSE answer(s, req, "success",
                  [Resp(200, "output", "model") EXCEPT !.output = output, !.usage = TRUE],
                  clearPendingPrompt(sessionStore, req.key))

\* String(n) of a natural number
RECURSIVE decimal(_)
decimal(n) ==
  IF n < 10 THEN <<(<<"0", "1", "2", "3", "4", "5", "6", "7", "8", "9">>)[n + 1]>>
  ELSE decimal(n \div 10) \o decimal(n % 10)

\* the error texts of an upstream failure

\* variant: the body of the upstream answer alone
upstreamError_bodyOnly(status, errBody) ==
  <<"O","p","e","n","A","I","-","F","e","h","l","e","r",":"," ">> \o orElse(errBody, <<"k","e","i","n","e"," ","D","e","t","a","i","l","s">>)

upstreamError(status, errBody) ==
  <<"O","p","e","n","A","I","-","F","e","h","l","e","r"," ">> \o decimal(status) \o <<":"," ">> \o orElse(errBody, <<"k","e","i","n","e"," ","D","e","t","a","i","l","s">>)

\* await res.text() (not ok) or await res.json() (ok) settles
BodySettles(s) ==
  /\ last = NoAnswer
  /\ reqs[s].pc = "body"
  /\ IF reqs[s].upstream < 200 \/ reqs[s].upstream > 299
     THEN \E errBody \in {<<>>, <<"{","c","o","d","e",":"," ","i","n","s","u","f","f","i","c","i","e","n","t","_","q","u","o","t","a","}">>, <<"o","v","e","r","l","o","a","d","e","d">>} :
            IF reqs[s].upstream = 429
               /\ includes(toLowerCase(errBody), <<"i","n","s","u","f","f","i","c","i","e","n","t","_","q","u","o","t","a">>)
            THEN answer(s, reqs[s], "upstream",
                        [Resp(502, "error", "quota") EXCEPT !.output = <<"O","p","e","n","A","I","-","K","o","n","t","i","n","g","e","n","t"," ","e","r","s","c","h","U+00F6","p","f","t"," ","(","A","P","I","-","B","i","l","l","i","n","g"," ","p","r","U+00FC","f","e","n",")",".">>],
                        sessionStore)
            ELSE answer(s, reqs[s], "upstream",
                        [Resp(502, "error", "upstream")
                           EXCEPT !.output = upstreamError(reqs[s].upstream, errBody)],
                        sessionStore)
     ELSE \/ caught(s)
          \/ \E content \in {<<"3","0","0">>, <<"1","C",";"," ","3","0","0">>, <<"3","0","0",";"," ","9","9">>, <<"3","0","0"," ","|"," ","E","K","G"," ","i","n"," ","R","u","h","e"," ","|"," ","5"," ","P">>,
                              <<"W","e","l","c","h","e"," ","D","a","u","e","r","?">>, <<" ">>} :
               LET output == trim(content) IN
               IF Falsy(output)
               THEN answer(s, [reqs[s] EXCEPT !.reply = content], "upstream",
                           [Resp(502, "error", "empty") EXCEPT !.output = <<"L","e","e","r","e"," ","A","n","t","w","o","r","t"," ","v","o","m"," ","M","o","d","e","l","l",".">>],
                           sessionStore)
               ELSE validated(s, content, output)
  /\ UNCHANGED <<cfg, now, started>>

\* time passes
Tick ==
  /\ last = NoAnswer
  /\ now < MaxTicks * TICK_MS
  /\ now' = now + TICK_MS
  /\ UNCHANGED <<cfg, sessionStore, reqs, started, last>>

\* the response has left the server: the record of the answered request is
\* dropped before the event loop takes its next step; after the process has
\* ended there is no next step
Delivered ==
  /\ last # NoAnswer
  /\ last.resp.tag # "exit"
  /\ last' = NoAnswer
  /\ UNCHANGED <<cfg, sessionStore, now, reqs, started>>

Next ==
  \/ \E s \in Slots : Arrive(s)
  \/ \E s \in Slots : FetchSettles(s)
  \/ \E s \in Slots : BodySettles(s)
  \/ Tick
  \/ Delivered

Spec == Init /\ [][Next]_vars

\* ------------------------------------------------------------------------
\* GET /api/check
\* ------------------------------------------------------------------------
\* slice(0, 7), the ellipsis, slice(-4)
keyPreview(apiKey) ==
  IF Falsy(apiKey) THEN <<"U+274C"," ","k","e","i","n"," ","K","e","y">>
  ELSE slice(apiKey, 7) \o <<"U+2026">>
       \o SubSeq(apiKey, IF Len(apiKey) > 4 THEN Len(apiKey) - 3 ELSE 1, Len(apiKey))

present(v) == IF Falsy(v) THEN <<"U+274C"," ","f","e","h","l","t">> ELSE <<"U+2705"," ","v","o","r","h","a","n","d","e","n">>

\* the JSON body of the response
apiCheck(env) ==
  [databaseUrl |-> present(env.databaseUrl),
   openAiKey |-> IF Falsy(env.apiKey) THEN <<"U+274C"," ","f","e","h","l","t">>
                 ELSE <<"U+2705"," ">> \o keyPreview(env.apiKey),
   supabaseUrl |-> present(env.supabaseUrl),
   supabaseJwtSecret |-> present(env.jwtSecret),
   allowedEmails |-> IF Len(env.allowedEmails) > 0
                     THEN <<"U+2705"," ">> \o decimal(Len(env.allowedEmails))
                     ELSE <<"U+2014">>,
   model |-> env.model]

\* ------------------------------------------------------------------------
\* The helpers called on their own: inputs and the calls
\* ------------------------------------------------------------------------
MaxKeyLen == 13       \* length of the longest API key tried
MaxMerge == 2
MaxFound == 3         \* length of the longest lists merged

\* the process environments /api/check reports on; the API keys are the
\* prefixes of one key
Envs ==
  {[apiKey |-> SubSeq(<<"s","k","-","p","r","o","j","-","A","B","C","D","E","F","G","H","I","J","K","L","M","N","O","P">>, 1, n), jwtSecret |-> j,
    databaseUrl |-> d, supabaseUrl |-> <<"h","t","t","p","s",":","/","/","x",".","s","u","p","a","b","a","s","e",".","c","o">>, allowedEmails |-> a,
    model |-> <<"g","p","t","-","4","o","-","m","i","n","i">>] :
     n \in 0..MaxKeyLen, j \in {<<>>, <<"j","w","t","-","s","3","c","r","e","t">>},
     d \in {<<>>, <<"p","o","s","t","g","r","e","s",":","/","/","u",":","p","w","@","d","b","/","a","p","p">>}, a \in {<<>>, <<<<"a","@","x",".","a","t">>>>}}

\* a call of a helper with its arguments and what it returned
Called(op, args, out) == [op |-> op, args |-> args, out |-> out]
NoCall == Called("none", <<>>, <<>>)

PureInit ==
  /\ cfg \in {[c EXCEPT !.catalog = IndexFile(withSVS),
                          !.synonyms = SynonymsFile(withSVS)] :
                c \in {c \in Configs : ~Falsy(c.apiKey) /\ c.jwtSecretSet},
                withSVS \in BOOLEAN}
  /\ sessionStore = <<>>
  /\ now = 0
  /\ reqs = [s \in Slots |-> IdleReq]
  /\ started = 0
  /\ last = NoCall

\* each behaviour is one call
CallNorm ==
  /\ last = NoCall
  /\ \E s \in {<<>>, <<" "," ">>, <<"U+00D6","G","K"," "," ","B","l","u","t","a","b","n","a","h","m","e">>, <<"o","e","g","k"," ","b","l","u","t","a","b","n","a","h","m","e">>, <<"G","r","U+00F6","U+00DF","e",":"," ","2","0"," ","M","i","n",".">>,
              <<"C","a","f","U+00E9","U+2122">>, <<"E","K","G","_","1">>, <<"U+00A0", "x", "U+0009">>, <<"B","l","u","t","a","b","n","a","h","m","e">>,
              <<"B","L","U","T","A","B","N","A","H","M","E">>, <<"B","l","u","t","a","b","n","U+00E4","h","m","e">>} :
       last' = Called("norm", [s |-> s], norm(s))
  /\ UNCHANGED <<cfg, sessionStore, now, reqs, started>>

CallPayer ==
  /\ last = NoCall
  /\ \E body \in {<<>>, <<"o","e","g","k">>, <<"K","F","A">>, <<"T","a","r","m","e","d">>, NonStringable},
        text \in {<<>>, <<"B","l","u","t","a","b","n","a","h","m","e">>, <<"U+00D6","G","K"," ","B","l","u","t","a","b","n","a","h","m","e">>, <<"b","v","a"," ","b","e","a","m","t","e","n"," ","o","e","g","k">>,
                  <<"W","i","e","n","e","r"," ","K","F","A"," ","E","K","G">>, <<"m","e","d","r","e","c","h"," ","k","u","f">>, <<"K","r","a","n","k","e","n","k","a","s","s","e">>, <<"S","V","S","-","G","e","w","e","r","b","e">>,
                  <<"o","e","g","k","x">>} :
       last' = Called("payer", [body |-> body, text |-> text], requestPayer(body, text))
  /\ UNCHANGED <<cfg, sessionStore, now, reqs, started>>

\* the payers are those step 3 of the handler passes on: none, a canonical
\* name, or a body value that maps to no canonical name
CallFind ==
  /\ last = NoCall
  /\ \E text \in {<<"B","l","u","t","a","b","n","a","h","m","e">>, <<"B","l","u","t","e","n","t","n","a","h","m","e">>, <<"B","l","u","t","a","b","n","a","h","m","e"," ","V","e","n","e">>, <<"E","K","G">>,
                  <<"E","r","s","t","o","r","d","i","n","a","t","i","o","n"," ","E","K","G">>, <<"H","u","s","t","e","n">>},
        payer \in {<<>>, OEGK, BVAEB, SVS, <<"T","a","r","m","e","d">>},
        limit \in {0, 1, 2, DEFAULT_LIMIT} :
       \E fuse \in FuseResults(searchPool(text, payer)) :
         last' = Called("find", [text |-> text, payer |-> payer, limit |-> limit],
                        findCandidates(text, payer, limit, fuse))
  /\ UNCHANGED <<cfg, sessionStore, now, reqs, started>>

\* lists of entries of the BVAEB and OEGK catalogs, repetitions included
\* (deriveAddOns may find one entry under two patterns)
CallMerge ==
  /\ last = NoCall
  /\ \E candidates, addOns \in
          UNION {[1..k -> Range(payerItems(BVAEB) \o payerItems(OEGK))] : k \in 0..MaxMerge} :
       last' = Called("merge", [candidates |-> candidates, addOns |-> addOns],
                      mergeCandidates(candidates, addOns))
  /\ UNCHANGED <<cfg, sessionStore, now, reqs, started>>

\* steps 3c-4 of the handler: findCandidates at its default limit, then the
\* add-on merge
CallCandidates ==
  /\ last = NoCall
  /\ \E text \in {<<"E","K","G">>, <<"E","r","s","t","o","r","d","i","n","a","t","i","o","n"," ","E","K","G">>, <<"E","r","s","t","o","r","d","i","n","a","t","i","o","n">>, <<"B","l","u","t","a","b","n","a","h","m","e"," ","V","e","n","e">>,
                  <<"H","u","s","t","e","n">>, <<"E","K","G"," ","H","o","l","t","e","r">>, <<"E","K","G"," ","n","e","u"," ","A","r","z","t","b","r","i","e","f"," ","H","o","l","t","e","r">>},
        payer \in {<<>>, OEGK, BVAEB, SVS} :
       \E fuse \in FuseResults(searchPool(text, payer)) :
         last' = Called("candidates", [text |-> text, payer |-> payer, fuse |-> fuse],
                        requestCandidates(findCandidates(text, payer, DEFAULT_LIMIT, fuse),
                                          text, payer))
  /\ UNCHANGED <<cfg, sessionStore, now, reqs, started>>

\* the reordering step of findCandidates on a found list
CallPrefer ==
  /\ last = NoCall
  /\ \E found \in UNION {[1..k -> Range(payerItems(BVAEB) \o payerItems(OEGK))] :
                            k \in 0..MaxFound},
        text \in {<<"E","K","G">>, <<"E","r","s","t","o","r","d","i","n","a","t","i","o","n"," ","E","K","G">>, <<"H","u","s","t","e","n">>},
        payer \in {<<>>, OEGK, BVAEB} :
       last' = Called("prefer", [found |-> found, text |-> text, payer |-> payer],
                      preferReorder(found, preferredByRules(text, payer)))
  /\ UNCHANGED <<cfg, sessionStore, now, reqs, started>>

GetCheck ==
  /\ last = NoCall
  /\ \E env \in Envs : last' = Called("check", env, apiCheck(env))
  /\ UNCHANGED <<cfg, sessionStore, now, reqs, started>>

PureNext == CallNorm \/ CallPayer \/ CallFind \/ CallMerge \/ CallCandidates \/ CallPrefer
            \/ GetCheck

PureSpec == PureInit /\ [][PureNext]_vars

\* ------------------------------------------------------------------------
\* One caller in dialogue: a request, its answer, the next request
\* ------------------------------------------------------------------------
MaxTurns == 3        \* requests of the dialogue
MaxChainTicks == 3   \* clock ticks of the dialogue

\* the dialogue so far: inputs are the prompts sent since the chain began
\* (with a request that found no live pending entry), parts the same with
\* everything up to a payer-only answer taken as "(<payer>)"; open: the last
\* request left its text pending, at time ts; asked: every request of the
\* chain so far ended in a clarification; first: the time of the chain's
\* first request; branch and resp: how the last request ended
Chain(inputs, parts, open, asked, ts, first, branch, resp) ==
  [op |-> "chain", inputs |-> inputs, parts |-> parts, open |-> open, asked |-> asked,
   ts |-> ts, first |-> first, branch |-> branch, resp |-> resp]

ChainInit ==
  /\ cfg = Config(<<"s","k","-","p","r","o","j","-","a","b","c","d","e","f","g","h">>, TRUE, {<<"a","@","x",".","a","t">>, <<"b","@","x",".","a","t">>})
  /\ sessionStore = <<>>
  /\ now = 0
  /\ reqs = [s \in Slots |-> IdleReq]
  /\ started = 0
  /\ last = Chain(<<>>, <<>>, FALSE, TRUE, 0, 0, "", Resp(0, "", ""))

\* the request with prompt input has run its synchronous part with outcome
\* r; cont: it continues the chain (the chain is open and its last entry is
\* younger than the TTL)
turned(input, r, cont) ==
  /\ sessionStore' = r.store
  /\ started' = started + 1
  /\ reqs' = IF r.branch = "model" THEN [reqs EXCEPT ![1] = r.req] ELSE reqs
  /\ last' = Chain(IF cont THEN Append(last.inputs, input) ELSE <<input>>,
                   IF r.branch = "payerOnly" THEN << <<"(">> \o r.req.payer \o <<")">> >>
                   ELSE IF cont THEN Append(last.parts, input) ELSE <<input>>,
                   r.branch \in {"bare", "payerOnly", "preQ"},
                   IF cont THEN last.asked ELSE TRUE,
                   IF r.branch \in {"bare", "payerOnly", "preQ"} THEN now ELSE last.ts,
                   IF cont THEN last.first ELSE now,
                   r.branch, r.resp)

turnWith(input, r1) ==
  \E fuse \in FuseResults(IF r1.branch \in {"preQ", "noCandidates", "model"}
                          THEN searchPool(r1.req.userInput, r1.req.payer)
                          ELSE <<>>) :
    turned(input,
           IF fuse = <<>> THEN r1
           ELSE syncPart(sessionStore, now, started + 1, User1, <<"1","0",".","0",".","0",".","1">>, input, TRUE,
                         <<>>, fuse),
           last.open /\ now - last.ts < FOLLOWUP_TTL_MS)

\* the caller sends the next prompt once the last request is answered
ChainTurn ==
  /\ reqs[1].pc = "idle"
  /\ started < MaxTurns
  /\ \E input \in {<<"B","l","u","t","a","b","n","a","h","m","e">>, <<"U+00D6","G","K">>, <<"2","0"," ","m","i","n">>, <<"U+00D6","G","K"," ","E","K","G">>, <<"V","e","n","e">>} :
       turnWith(input, syncPart(sessionStore, now, started + 1, User1, <<"1","0",".","0",".","0",".","1">>, input,
                                TRUE, <<>>, <<>>))
  /\ UNCHANGED <<cfg, now>>

\* the handler of the request ends: its slot is free, the chain is open
\* when it left its text pending
chainAnswer(branch, resp, store, open, asked) ==
  /\ sessionStore' = store
  /\ reqs' = [reqs EXCEPT ![1] = IdleReq]
  /\ last' = [last EXCEPT !.branch = branch, !.resp = resp, !.open = open,
                          !.asked = asked, !.ts = IF open THEN now ELSE @]

\* the catch block: the prompt is kept as pending, 500 with the message
chainCaught ==
  chainAnswer("caught", Resp(500, "error", "exception"),
              setPendingPrompt(sessionStore, reqs[1].key, reqs[1].userInput, now, reqs[1].id),
              TRUE, FALSE)

\* await fetch(...) settles: it rejects or resolves to a response
ChainFetch ==
  /\ reqs[1].pc = "fetch"
  /\ \/ chainCaught
     \/ \E st \in {200, 429, 500} :
          /\ reqs' = [reqs EXCEPT ![1].pc = "body", ![1].upstream = st]
          /\ UNCHANGED <<sessionStore, last>>
  /\ UNCHANGED <<cfg, now, started>>

\* steps 9 and 10 on the trimmed completion
chainValidated(output) ==
  IF Len(illegalCodes(output, reqs[1].candidates)) > 0
  THEN chainAnswer("clarification",
                   [Resp(200, "output", "clarification")
                      EXCEPT !.illegal = illegalCodes(output, reqs[1].candidates),
                             !.usage = TRUE],
                   setPendingPrompt(sessionStore, reqs[1].key, reqs[1].userInput, now,
                                    reqs[1].id),
                   TRUE, last.asked)
  ELSE chainAnswer("success",
                   [Resp(200, "output", "model") EXCEPT !.output = output, !.usage = TRUE],
                   clearPendingPrompt(sessionStore, reqs[1].key), FALSE, last.asked)

\* await res.text() (not ok) or await res.json() (ok) settles
ChainBody ==
  /\ reqs[1].pc = "body"
  /\ IF reqs[1].upstream < 200 \/ reqs[1].upstream > 299
     THEN \E errBody \in {<<"{","c","o","d","e",":"," ","i","n","s","u","f","f","i","c","i","e","n","t","_","q","u","o","t","a","}">>, <<"o","v","e","r","l","o","a","d","e","d">>} :
            IF reqs[1].upstream = 429
               /\ includes(toLowerCase(errBody), <<"i","n","s","u","f","f","i","c","i","e","n","t","_","q","u","o","t","a">>)
            THEN chainAnswer("upstream",
                             [Resp(502, "error", "quota") EXCEPT !.output = <<"O","p","e","n","A","I","-","K","o","n","t","i","n","g","e","n","t"," ","e","r","s","c","h","U+00F6","p","f","t"," ","(","A","P","I","-","B","i","l","l","i","n","g"," ","p","r","U+00FC","f","e","n",")",".">>],
                             sessionStore, FALSE, last.asked)
            ELSE chainAnswer("upstream",
                             [Resp(502, "error", "upstream")
                                EXCEPT !.output = upstreamError(reqs[1].upstream, errBody)],
                             sessionStore, FALSE, last.asked)
     ELSE \/ chainCaught
          \/ \E content \in {<<"3","0","0">>, <<"3","0","0",";"," ","9","9">>, <<" ">>} :
               IF Falsy(trim(content))
               THEN chainAnswer("upstream",
                                [Resp(502, "error", "empty") EXCEPT !.output = <<"L","e","e","r","e"," ","A","n","t","w","o","r","t"," ","v","o","m"," ","M","o","d","e","l","l",".">>],
                                sessionStore, FALSE, last.asked)
               ELSE chainValidated(trim(content))
  /\ UNCHANGED <<cfg, now, started>>

ChainTick ==
  /\ now < MaxChainTicks * TICK_MS
  /\ now' = now + TICK_MS
  /\ UNCHANGED <<cfg, sessionStore, reqs, started, last>>

ChainNext == ChainTurn \/ ChainFetch \/ ChainBody \/ ChainTick

ChainSpec == ChainInit /\ [][ChainNext]_vars

\* ------------------------------------------------------------------------
\* Observations the properties are stated on
\* ------------------------------------------------------------------------
\* a request has just been answered by the handler or by requireAuth
answered == last.id # 0 /\ last.branch # "rejected"
\* the answered request went through requireAuth
authenticated == answered /\ last.branch # "auth"
\* handlers waiting for the external model
waiting == {s \in Slots : reqs[s].pc # "idle"}

\* the locals the merge sets, of the request that arrived last (it is waiting
\* for the model, or has just been answered)
mergeView(r) ==
  [id |-> r.id, key |-> r.key, input |-> r.input, pending |-> r.pending,
   userInput |-> r.userInput]
newest ==
  {v \in {mergeView(reqs[s]) : s \in Slots} \cup {mergeView(last)} :
     v.id = started /\ started > 0}

\* code-shaped tokens of a text (digits with an optional trailing letter,
\* delimited by non-word characters), lower-cased; position codes of a list
isCodeToken(t, i, j) ==
  /\ i <= j
  /\ \A k \in i..(j - 1) : t[k] \in Digits
  /\ t[j] \in Digits \/ (i < j /\ t[j] \in LowerLetters \cup UpperLetters)
  /\ (i = 1 \/ ~IsWordChar(t[i - 1]))
  /\ (j = Len(t) \/ ~IsWordChar(t[j + 1]))
codeTokens(t) ==
  {toLowerCase(SubSeq(t, p[1], p[2])) :
     p \in {q \in (1..Len(t)) \X (1..Len(t)) : isCodeToken(t, q[1], q[2])}}
posCodes(list) == {toLowerCase(list[i].pos) : i \in 1..Len(list)}

\* ------------------------------------------------------------------------
\* C1
\* ------------------------------------------------------------------------
\* C1: a model reply with a code-shaped token that is not the position code
\* of a candidate of the request is never returned as the answer, the
\* clarification is returned instead; so every reply that is returned uses
\* candidate codes only.
C1_NoUnlistedCode ==
  /\ (answered /\ last.resp.tag = "model")
       => codeTokens(last.resp.output) \subseteq posCodes(last.candidates)
  /\ (answered /\ last.branch \in {"success", "clarification"}
        /\ ~(codeTokens(last.reply) \subseteq posCodes(last.candidates)))
       => /\ last.resp.tag = "clarification"
          /\ last.resp.output = <<>>
          /\ last.resp.status = 200

\* a reply naming a code outside the candidates was replaced by the clarification
C1_Witness ==
  /\ answered /\ last.branch = "clarification"
  /\ ~(codeTokens(last.reply) \subseteq posCodes(last.candidates))
  /\ last.resp.illegal # <<>>

\* ------------------------------------------------------------------------
\* C2
\* ------------------------------------------------------------------------
isQuestion(resp) ==
  /\ resp.status = 200 /\ resp.kind = "output"
  /\ resp.tag \in {"bareDuration", "payerOnly", "preQ"}
  /\ resp.tag = "preQ" => resp.questions # <<>>
clarified == answered /\ last.branch \in {"bare", "payerOnly", "preQ"}

\* C2 as claimed: a request that ends in NEEDS_CLARIFICATION returns the
\* question, has not called the model, and leaves a pending entry under its
\* key whose prompt is the query of that request.
C2_StoresQuery ==
  clarified =>
    /\ isQuestion(last.resp)
    /\ last.calls = 0
    /\ last.after # <<>>
    /\ last.after[1].prompt = last.userInput

\* C2 amended: ... whose prompt is the text the request evaluated (the live
\* pending text, if any, then the new input), except after the payer-only
\* guard, which stores "(<payer>)".
C2_StoresContext ==
  clarified =>
    /\ isQuestion(last.resp)
    /\ last.calls = 0
    /\ last.after # <<>>
    /\ last.after[1].prompt =
         IF last.branch = "payerOnly" THEN <<"(">> \o last.payer \o <<")">>
         ELSE last.userInput

\* the payer-only guard has stored the payer in brackets
C2_Witness ==
  /\ clarified /\ last.branch = "payerOnly"
  /\ last.after # <<>>
  /\ last.after[1].prompt = <<"(">> \o OEGK \o <<")">>
  /\ last.after[1].prompt # last.userInput

\* ------------------------------------------------------------------------
\* C3
\* ------------------------------------------------------------------------
\* C3: a request with a prompt whose key has a pending entry younger than the
\* TTL evaluates "<pending> <input>", pending text first, and the entry it
\* found is gone: whatever is under the key afterwards this request stored.
C3_Merge ==
  [][started' = started + 1 =>
       \A r \in newest' :
         (/\ r.input # <<>> /\ ~Falsy(cfg.apiKey)
          /\ r.key \in DOMAIN sessionStore
          /\ now - sessionStore[r.key].ts < FOLLOWUP_TTL_MS)
         => /\ r.pending = sessionStore[r.key].prompt
            /\ r.userInput = r.pending \o <<" ">> \o r.input
            /\ r.key \in DOMAIN sessionStore' => sessionStore'[r.key].by = r.id]_vars

\* a follow-up was merged with the pending text and answered by the shortcut
C3_Witness ==
  /\ answered /\ last.branch = "shortcut"
  /\ last.pending # <<>> /\ last.input # <<>>
  /\ last.userInput = last.pending \o <<" ">> \o last.input
  /\ last.before # <<>> /\ last.after = <<>>

\* ------------------------------------------------------------------------
\* C4
\* ------------------------------------------------------------------------
\* C4: a request with a prompt whose key has a pending entry of age TTL or
\* more evaluates the new input alone, and the expired entry is gone.
C4_Expired ==
  [][started' = started + 1 =>
       \A r \in newest' :
         (/\ r.input # <<>> /\ ~Falsy(cfg.apiKey)
          /\ r.key \in DOMAIN sessionStore
          /\ now - sessionStore[r.key].ts >= FOLLOWUP_TTL_MS)
         => /\ r.pending = <<>>
            /\ r.userInput = r.input
            /\ r.key \in DOMAIN sessionStore' => sessionStore'[r.key].by = r.id]_vars

\* a request found an expired entry under its key and was evaluated alone
C4_Witness ==
  /\ answered /\ last.calls = 0 /\ last.input # <<>> /\ ~Falsy(cfg.apiKey)
  /\ last.before # <<>>
  /\ now - last.before[1].ts >= FOLLOWUP_TTL_MS
  /\ last.pending = <<>> /\ last.userInput = last.input

\* ------------------------------------------------------------------------
\* C5
\* ------------------------------------------------------------------------
\* a duration phrase: a number of minutes or hours, in full or abbreviated
DurationPhraseWords == {<<"m","i","n">>, <<"m","i","n","u","t","e">>, <<"m","i","n","u","t","e","n">>, <<"s","t","u","n","d","e">>, <<"s","t","u","n","d","e","n">>, <<"s","t","d">>}
hasDurationPhrase(text) == matchAnyWord(norm(text), DurationPhraseWords)
hasServiceKeyword(text) == includesAny(norm(text), ServiceKeywords)
durationOnly(text) == hasDurationPhrase(text) /\ ~hasServiceKeyword(text)

\* C5: a query with a duration phrase and no service keyword is a bare
\* duration query: the guard answers it with its question, the model is not
\* called.
C5_BareDuration ==
  /\ (authenticated /\ last.userInput # <<>> /\ durationOnly(last.userInput))
       => /\ isBareDurationQuery(last.userInput)
          /\ last.branch = "bare"
          /\ last.calls = 0
  /\ \A s \in waiting : ~durationOnly(reqs[s].userInput)

\* ------------------------------------------------------------------------
\* C6
\* ------------------------------------------------------------------------
\* C6: a pending entry stored by a request is not deleted or overwritten by a
\* request of the same key that arrived earlier and is answered later.
C6_NoLostPending ==
  (answered /\ last.before # <<>> /\ last.before[1].by > last.id)
    => last.after = last.before

\* ------------------------------------------------------------------------
\* C7
\* ------------------------------------------------------------------------
\* the requests whose allow-list went to the model: <<found, candidates,
\* userInput, payer>>
asked ==
  {<<reqs[s].found, reqs[s].candidates, reqs[s].userInput, reqs[s].payer>> : s \in waiting}
  \cup (IF answered /\ last.calls > 0
        THEN {<<last.found, last.candidates, last.userInput, last.payer>>} ELSE {})

\* C7 as claimed: every entry of the allow-list sent to the model is in the
\* output of findCandidates for that request.
C7_OnlyFound ==
  \A a \in asked : Range(a[2]) \subseteq Range(a[1])

\* C7 amended: every entry of the allow-list sent to the model is in the
\* output of findCandidates or in the output of deriveAddOns for that request.
C7_FoundOrAddOn ==
  \A a \in asked : Range(a[2]) \subseteq Range(a[1]) \cup Range(deriveAddOns(a[3], a[4]))

\* an add-on that the search had not found is in an allow-list sent to the model
C7_Witness ==
  \E a \in asked : \E c \in Range(a[2]) :
    c \notin Range(a[1]) /\ c \in Range(deriveAddOns(a[3], a[4]))

\* ------------------------------------------------------------------------
\* C8
\* ------------------------------------------------------------------------
\* C8: a request calls the external model at most once; after a failed call
\* (rejected fetch or body, status outside 2xx, empty completion) the request
\* is answered with the error, without a second call.
C8_SingleCall ==
  /\ \A s \in waiting : reqs[s].calls = 1
  /\ \A s \in Slots \ waiting : reqs[s].calls = 0
  /\ answered => last.calls <= 1
  /\ (answered /\ last.branch \in {"caught", "upstream"})
       => /\ last.calls = 1
          /\ last.resp.kind = "error"
          /\ last.resp.status = (IF last.branch = "caught" THEN 500 ELSE 502)
          /\ \A s \in waiting : reqs[s].id # last.id

\* a rejected fetch was reported as 500 after the one call
C8_Witness ==
  /\ answered /\ last.branch = "caught" /\ last.upstream = 0
  /\ last.calls = 1 /\ last.resp.status = 500

\* ------------------------------------------------------------------------
\* C9
\* ------------------------------------------------------------------------
\* the search and the add-ons of the answered request gave no candidate
noCandidates ==
  answered /\ last.branch \in {"preQ", "noCandidates"} /\ last.candidates = <<>>

\* C9 as claimed: when the candidate search, add-ons included, gives no
\* entry, the response is HTTP 400 with an error text.
C9_Status400 ==
  noCandidates => last.resp.status = 400 /\ last.resp.kind = "error"

\* C9 amended: when the candidate search, add-ons included, gives no entry,
\* the response is HTTP 200 with a question as output (the early question
\* that applies, else the "Unklar" question), the evaluated text is stored as
\* pending and the model is not called.
C9_Question ==
  noCandidates =>
    /\ last.resp.status = 200 /\ last.resp.kind = "output"
    /\ last.resp.questions # <<>>
    /\ last.calls = 0
    /\ last.after # <<>> /\ last.after[1].prompt = last.userInput

\* the "Unklar" question was the answer to a search without result
C9_Witness ==
  /\ noCandidates /\ last.found = <<>>
  /\ last.resp.questions = <<Q_UNCLEAR>>
  /\ last.resp.status = 200

\* ------------------------------------------------------------------------
\* C10
\* ------------------------------------------------------------------------
rejectedInput ==
  authenticated /\ (last.input = <<>> \/ Falsy(cfg.apiKey))

\* C10: an authenticated request without a prompt is answered 400, one with
\* a prompt but without a configured API key 500 (the prompt is checked
\* first); neither calls the model nor changes the pending map.
C10_InputChecks ==
  /\ [](/\ (authenticated /\ last.input = <<>>)
             => last.resp.status = 400 /\ last.resp.kind = "error" /\ last.calls = 0
        /\ (authenticated /\ last.input # <<>> /\ Falsy(cfg.apiKey))
             => last.resp.status = 500 /\ last.resp.kind = "error" /\ last.calls = 0
        /\ \A s \in waiting : reqs[s].input # <<>> /\ ~Falsy(cfg.apiKey))
  /\ [][(started' = started + 1 /\ rejectedInput')
          => sessionStore' = sessionStore /\ reqs' = reqs]_vars

\* a request without a prompt got 400 although the API key is missing too
C10_Witness ==
  /\ authenticated /\ last.input = <<>> /\ Falsy(cfg.apiKey)
  /\ last.resp.status = 400

\* ------------------------------------------------------------------------
\* C11
\* ------------------------------------------------------------------------
\* the model call of the answered request failed upstream: fetch resolved to
\* a non-2xx status, or to a 2xx status whose completion is empty
upstreamFailed ==
  /\ last.id # 0 /\ last.calls > 0
  /\ \/ last.upstream # 0 /\ last.upstream \notin 200..299
     \/ last.branch = "upstream"

\* C11: whenever the model call ends in a non-2xx status, in quota
\* exhaustion or in an empty completion, the response is HTTP 502 and its
\* error text contains the upstream HTTP status.
C11_StatusEmbedded ==
  upstreamFailed =>
    /\ last.resp.status = 502 /\ last.resp.kind = "error"
    /\ includes(last.resp.output, decimal(last.upstream))

\* C11 amended: in each of the three cases the response is HTTP 502 with an
\* error text; the text contains the upstream status when the status is
\* non-2xx and the failure is not quota exhaustion.
C11_Status502 ==
  upstreamFailed =>
    /\ last.resp.status = 502 /\ last.resp.kind = "error"
    /\ last.resp.output # <<>>
    /\ (last.upstream \notin 200..299 /\ last.resp.tag # "quota")
         => includes(last.resp.output, decimal(last.upstream))

\* a 429 that is not quota exhaustion was answered 502 with "429" in the text
C11_Witness ==
  /\ upstreamFailed /\ last.upstream = 429 /\ last.resp.tag = "upstream"
  /\ last.resp.status = 502
  /\ includes(last.resp.output, <<"4","2","9">>)

\* ------------------------------------------------------------------------
\* C12
\* ------------------------------------------------------------------------
\* an exception was thrown while the request that just ended was handled
threw == last.id # 0 /\ last.branch \in {"rejected", "caught"}

\* C12: an exception raised while an authenticated request is handled, in
\* whichever step, ends in an HTTP 500 response that carries the exception
\* message as its error; no such request is left without a response.
C12_Always500 ==
  threw => /\ last.resp.status = 500
           /\ last.resp.kind = "error" /\ last.resp.tag = "exception"

\* ------------------------------------------------------------------------
\* C13
\* ------------------------------------------------------------------------
\* the token verifies against the configured secret and its e-mail passes the
\* allow-list
listed(tok) ==
  cfg.allowedEmails = {} \/ toLowerCase(tok.email) \in cfg.allowedEmails
verified(tok) == tok.kind = "valid" /\ cfg.jwtSecretSet /\ listed(tok)
\* the handler body ran for the request that just ended
handled == last.id # 0 /\ last.branch # "auth"
\* the handler body runs only for verified tokens, and a request stopped by
\* requireAuth neither touches the pending map nor starts a model call
C13_OnlyVerified ==
  /\ [](/\ handled => verified(last.tok)
        /\ \A s \in waiting : verified(reqs[s].tok))
  /\ [][(started' = started + 1 /\ last'.branch = "auth")
          => sessionStore' = sessionStore /\ reqs' = reqs]_vars

\* C13: the handler body (any pending-map access, any model call) runs only
\* for a token that verifies against the shared secret and whose e-mail is
\* allow-listed when the allow-list is not empty; a missing, invalid or
\* expired token is answered 401, a non-allow-listed e-mail 403.
C13_Auth ==
  /\ C13_OnlyVerified
  /\ [](last.id # 0 =>
          /\ last.tok.kind \in {"none", "invalid"} => last.resp.status = 401
          /\ (last.tok.kind = "valid" /\ ~listed(last.tok)) => last.resp.status = 403)

\* C13 amended: as C13 for the handler body; a missing token is answered 401
\* and, when the shared secret is configured, an invalid or expired token
\* 401 and a non-allow-listed e-mail 403; without the secret every request
\* that carries a token is answered 500.
C13_AuthConfigured ==
  /\ C13_OnlyVerified
  /\ [](last.id # 0 =>
          /\ last.tok.kind = "none" => last.resp.status = 401
          /\ (cfg.jwtSecretSet /\ last.tok.kind = "invalid") => last.resp.status = 401
          /\ (cfg.jwtSecretSet /\ last.tok.kind = "valid" /\ ~listed(last.tok))
               => last.resp.status = 403
          /\ (~cfg.jwtSecretSet /\ last.tok.kind # "none") => last.resp.status = 500)

\* a verified token whose e-mail is not on the allow-list was answered 403
C13_Witness ==
  /\ last.id # 0 /\ last.tok = User3 /\ cfg.allowedEmails # {}
  /\ cfg.jwtSecretSet /\ last.resp.status = 403 /\ last.branch = "auth"

\* ------------------------------------------------------------------------
\* C14
\* ------------------------------------------------------------------------
\* the texts of the /api/check response just sent
checkTexts == {last.out[f] : f \in DOMAIN last.out}

\* C14: for a configured API key of any length the /api/check response does
\* not disclose the key: the preview shows fewer characters than the key has
\* and the key is in no text of the response; neither the auth secret nor
\* the database URL is in any text of the response.
C14_KeyNotDisclosed ==
  (last.op = "check") =>
    /\ ~Falsy(last.args.apiKey) =>
         /\ Len(keyPreview(last.args.apiKey)) - 1 < Len(last.args.apiKey)
         /\ \A t \in checkTexts : ~includes(t, last.args.apiKey)
    /\ \A secret \in {last.args.jwtSecret, last.args.databaseUrl} :
         ~Falsy(secret) => \A t \in checkTexts : ~includes(t, secret)

\* ------------------------------------------------------------------------
\* C15
\* ------------------------------------------------------------------------
\* the query the answered request evaluated is vague: a bare duration, or one
\* the handler stopped with a question or for want of candidates
vagueQuery ==
  /\ authenticated /\ last.userInput # <<>>
  /\ \/ durationOnly(last.userInput)
     \/ last.branch \in {"bare", "payerOnly", "preQ", "noCandidates"}
\* the model's reply names a code that is not a candidate's
outOfListReply ==
  /\ answered /\ last.branch \in {"success", "clarification"}
  /\ ~(codeTokens(last.reply) \subseteq posCodes(last.candidates))

\* C15: a vague query and a reply with an out-of-list code are answered with
\* HTTP 200 and an output that is a clarification question, never with an
\* error status.
C15_NeverError ==
  (vagueQuery \/ outOfListReply) =>
    /\ last.resp.status = 200 /\ last.resp.kind = "output"
    /\ last.resp.tag \in {"bareDuration", "payerOnly", "preQ", "clarification"}

\* ------------------------------------------------------------------------
\* C16
\* ------------------------------------------------------------------------
\* findCandidates was called with a payer
foundFor == last.op = "find" /\ ~Falsy(last.args.payer)

\* C16: for every query text and every non-null payer the handler detects,
\* each entry returned by findCandidates (the single entry of the blood-draw
\* exact match included) has entry.payer equal to that payer.
C16_EntryPayer ==
  foundFor => \A i \in 1..Len(last.out) : last.out[i].payer = last.args.payer

\* the payer's entries were searched by token overlap and two of them were
\* returned, the preferred one first; the catalog of another payer has
\* entries the query names too
C16_Witness ==
  /\ foundFor /\ last.args.payer = OEGK /\ last.args.text = <<"E","r","s","t","o","r","d","i","n","a","t","i","o","n"," ","E","K","G">>
  /\ Len(last.out) = 2 /\ last.out[1].pos = <<"3","0","0">> /\ last.out[2].pos = <<"1","c">>
  /\ \E x \in Range(payerItems(SVS)) : ntIncludes(x, <<"e","k","g">>)

\* ------------------------------------------------------------------------
\* C17
\* ------------------------------------------------------------------------
\* C17: for every query, payer and limit the list findCandidates returns has
\* at most limit entries, on every return path.
C17_AtMostLimit ==
  (last.op = "find") => Len(last.out) <= last.args.limit

\* the token-overlap fallback found more entries than the limit allows and
\* the list was cut
C17_Witness ==
  /\ last.op = "find" /\ last.args.limit = 1 /\ Len(last.out) = 1
  /\ Len(findCandidates(last.args.text, last.args.payer, DEFAULT_LIMIT, <<>>)) > 1

\* ------------------------------------------------------------------------
\* C18
\* ------------------------------------------------------------------------
\* the entry "Blutentnahme aus der Vene" of the payer's catalog, if any
veneEntries(payer) ==
  SelectSeq(catalogIndex, LAMBDA it : /\ it.payer = payer
                                      /\ it.title = <<"B","l","u","t","e","n","t","n","a","h","m","e"," ","a","u","s"," ","d","e","r"," ","V","e","n","e">>)
\* the query names a payer whose catalog has the entry, and asks for a blood
\* draw from the vein
venousDraw(text) ==
  /\ ~Falsy(extractCanonicalPayer(text))
  /\ bloodIntent(norm(text)) /\ hasVenousFlag(norm(text))
  /\ veneEntries(extractCanonicalPayer(text)) # <<>>

\* C18: a query that names a payer, asks for a blood draw with a venous flag
\* and whose payer catalog has the entry "Blutentnahme aus der Vene" is
\* answered with the table of exactly that entry, without fuzzy search and
\* without a call of the external model.
C18_VeneShortcut ==
  /\ (answered /\ last.userInput # <<>> /\ ~Falsy(cfg.apiKey) /\ venousDraw(last.userInput))
       => /\ last.branch = "shortcut" /\ last.resp.tag = "table"
          /\ last.resp.status = 200
          /\ last.candidates = <<veneEntries(extractCanonicalPayer(last.userInput))[1]>>
          /\ last.found = <<>> /\ last.calls = 0
  /\ \A s \in waiting : ~venousDraw(reqs[s].userInput)

\* ------------------------------------------------------------------------
\* C19
\* ------------------------------------------------------------------------
\* the request that just ended had got as far as step 3, where the payer is
\* determined
reachedPayer ==
  /\ last.id # 0 /\ last.userInput # <<>>
  /\ last.branch \notin {"auth", "noPrompt", "noApiKey", "bare"}

\* C19: payer detection never throws, and the payer the rest of the request
\* pipeline uses is none or a member of {OEGK, BVAEB, SVS, KUF, MEDRECH}.
C19_FixedSet ==
  /\ reachedPayer => /\ last.branch # "rejected"
                     /\ last.payer \in {<<>>, OEGK, BVAEB, SVS, KUF, MEDRECH}
  /\ \A s \in waiting : reqs[s].payer \in {<<>>, OEGK, BVAEB, SVS, KUF, MEDRECH}

\* ------------------------------------------------------------------------
\* C20
\* ------------------------------------------------------------------------
\* C20: norm is idempotent, norm(norm(s)) = norm(s) for every string s, and
\* the empty string maps to the empty string.
C20_Idempotent ==
  (last.op = "norm") =>
    /\ norm(last.out) = last.out
    /\ last.args.s = <<>> => last.out = <<>>

\* ------------------------------------------------------------------------
\* C21
\* ------------------------------------------------------------------------
\* the text with the case of every letter changed
caseSwapped(s) ==
  mapSeq(s, LAMBDA c : IF c \in DOMAIN LowerTable THEN LowerTable[c]
                       ELSE IF \E u \in DOMAIN LowerTable : LowerTable[u] = c
                       THEN CHOOSE u \in DOMAIN LowerTable : LowerTable[u] = c
                       ELSE c)
\* the text with the diacritic of every letter left out
unaccented(s) ==
  mapSeq(s, LAMBDA c : CASE c \in {"U+00E4"} -> "a" [] c \in {"U+00F6"} -> "o"
                         [] c \in {"U+00FC"} -> "u" [] c \in {"U+00E9"} -> "e"
                         [] c \in {"U+00C4"} -> "A" [] c \in {"U+00D6"} -> "O"
                         [] c \in {"U+00DC"} -> "U" [] c \in {"U+00C9"} -> "E"
                         [] OTHER -> c)
\* the text with every umlaut and sharp s written as its digraph and every
\* other diacritic left out
transliterated(s) ==
  expandChars(s, ("U+00E4" :> <<"a", "e">>) @@ ("U+00F6" :> <<"o", "e">>) @@
                 ("U+00FC" :> <<"u", "e">>) @@ ("U+00DF" :> <<"s", "s">>) @@
                 ("U+00C4" :> <<"A", "e">>) @@ ("U+00D6" :> <<"O", "e">>) @@
                 ("U+00DC" :> <<"U", "e">>) @@ ("U+00E9" :> <<"e">>) @@
                 ("U+00C9" :> <<"E">>))

\* C21: norm is case- and diacritic-insensitive: a text, the text in the
\* other letter case and the text without its diacritics have the same norm.
C21_Insensitive ==
  (last.op = "norm") =>
    /\ norm(caseSwapped(last.args.s)) = last.out
    /\ norm(unaccented(last.args.s)) = last.out

\* C21 amended: a text and the text in the other letter case have the same
\* norm; a text has the norm of its transliteration, in which a precomposed
\* umlaut or sharp s is written as its digraph (ae, oe, ue, ss) and any other
\* diacritic is left out.
C21_Transliterated ==
  (last.op = "norm") =>
    /\ norm(caseSwapped(last.args.s)) = last.out
    /\ norm(transliterated(last.args.s)) = last.out

\* the umlaut of "Blutabnaehme" written with a-umlaut became the digraph
C21_Witness ==
  /\ last.op = "norm" /\ last.args.s = <<"B","l","u","t","a","b","n","U+00E4","h","m","e">>
  /\ last.out = <<"b","l","u","t","a","b","n","a","e","h","m","e">>

\* ------------------------------------------------------------------------
\* C22
\* ------------------------------------------------------------------------
\* position codes of the first n entries of a list
codesBefore(list, n) == {list[j].pos : j \in 1..(n - 1)}

\* C22: mergeCandidates keeps the candidates in their places, appends only
\* add-ons, and appends no add-on whose position code is already in the list
\* (a candidate's or an earlier appended add-on's).
C22_MergeDedup ==
  (last.op = "merge") =>
    /\ Len(last.out) >= Len(last.args.candidates)
    /\ SubSeq(last.out, 1, Len(last.args.candidates)) = last.args.candidates
    /\ \A i \in (Len(last.args.candidates) + 1)..Len(last.out) :
         /\ last.out[i] \in Range(last.args.addOns)
         /\ last.out[i].pos \notin codesBefore(last.out, i)

\* of two add-ons one was appended and one, its code being in the list, was not
C22_Witness ==
  /\ last.op = "merge" /\ Len(last.args.addOns) = 2
  /\ Len(last.out) = Len(last.args.candidates) + 1
  /\ last.args.addOns[1].pos \in codesBefore(last.args.candidates, Len(last.args.candidates) + 1)

\* ------------------------------------------------------------------------
\* C23
\* ------------------------------------------------------------------------
\* C23: a request whose candidate list is empty, no early question applying,
\* is answered HTTP 200 with the "Unklar" question, its text is stored as
\* pending and the model is not called; so no handler calls the model with
\* an empty allow-list.
C23_EmptyAsks ==
  /\ (noCandidates /\ earlyQuestion(last.userInput, last.payer) = <<>>)
       => /\ last.branch = "preQ" /\ last.resp.questions = <<Q_UNCLEAR>>
          /\ last.resp.status = 200 /\ last.resp.kind = "output"
          /\ last.calls = 0
          /\ last.after # <<>> /\ last.after[1].prompt = last.userInput
  /\ \A s \in waiting : reqs[s].calls > 0 /\ reqs[s].candidates # <<>>
  /\ (answered /\ last.calls > 0) => last.candidates # <<>>

\* a query with a payer and nothing the catalog knows got the "Unklar"
\* question and is pending
C23_Witness ==
  /\ noCandidates /\ earlyQuestion(last.userInput, last.payer) = <<>>
  /\ last.before = <<>> /\ last.after # <<>>
  /\ last.after[1].prompt = last.userInput /\ last.after[1].by = last.id
  /\ last.resp.questions = <<Q_UNCLEAR>>

\* ------------------------------------------------------------------------
\* C24
\* ------------------------------------------------------------------------
\* the query has a blood-draw intent and says neither venous nor capillary
bloodUnspecified(u) ==
  /\ bloodIntent(norm(u)) /\ ~hasVenousFlag(norm(u)) /\ ~hasCapillaryFlag(norm(u))
venousQuestion == "War es eine venoese oder kapillare Blutentnahme?"
asksVenous ==
  /\ last.branch = "preQ" /\ last.resp.status = 200
  /\ venousQuestion \in Range(last.resp.questions)

\* C24 as stated: a request whose merged query has a blood-draw intent
\* without venous or capillary is answered with the venous-or-capillary
\* question, never with a billing answer and never by the model, whatever
\* payer and setting it names.
C24_AlwaysAsks ==
  /\ \A s \in waiting : ~bloodUnspecified(reqs[s].userInput)
  /\ (answered /\ bloodUnspecified(last.userInput)) => asksVenous

\* C24 as amended: such a request never reaches the model; it is answered
\* with the venous-or-capillary question, with the bare-duration question
\* when the duration guard takes it, or, when it names a payer and the
\* Ordination and not the Labor, with the table of the payer's vein entry.
C24_AsksOrVein ==
  /\ \A s \in waiting : ~bloodUnspecified(reqs[s].userInput)
  /\ (answered /\ bloodUnspecified(last.userInput))
       => /\ last.calls = 0
          /\ \/ asksVenous
             \/ /\ last.branch = "bare" /\ last.resp.tag = "bareDuration"
                /\ isBareDurationQuery(last.userInput)
             \/ /\ last.branch = "shortcut" /\ last.resp.tag = "table"
                /\ last.payer # <<>>
                /\ detectSetting(norm(last.userInput)).inOrd
                /\ ~detectSetting(norm(last.userInput)).inLab
                /\ Len(last.candidates) = 1
                /\ matchVene(last.candidates[1].title)
                /\ ~titleHasLabor(last.candidates[1])
                /\ samePayer(last.candidates[1].payer, last.payer)

\* a blood draw in the Ordination, neither venous nor capillary, was answered
\* with the vein entry
C24_Witness ==
  /\ answered /\ bloodUnspecified(last.userInput)
  /\ last.branch = "shortcut" /\ last.candidates[1].pos = <<"5","4">>
  /\ last.pending = <<>>

\* ------------------------------------------------------------------------
\* C25
\* ------------------------------------------------------------------------
\* the rules that match the call, and the rule the claim says is applied
matching == {k \in 1..Len(rules) : ruleMatches(last.args.text, rules[k], last.args.payer)}
firstRule == CHOOSE k \in matching : \A j \in matching : k <= j
preferredEntry(x) == matching # {} /\ x.pos \in Range(rules[firstRule].prefer)
occurrences(s, x) == Cardinality({i \in 1..Len(s) : s[i] = x})

\* C25: the reordering returns a permutation of the found list in which the
\* entries preferred by the first matching rule come first, and both groups
\* keep their order; no later rule has a say.
C25_StablePartition ==
  last.op = "prefer"
    => /\ Len(last.out) = Len(last.args.found)
       /\ \A x \in Range(catalogIndex) :
            occurrences(last.out, x) = occurrences(last.args.found, x)
       /\ \A i, j \in 1..Len(last.out) :
            (i < j /\ preferredEntry(last.out[j])) => preferredEntry(last.out[i])
       /\ SelectSeq(last.out, preferredEntry) = SelectSeq(last.args.found, preferredEntry)
       /\ SelectSeq(last.out, LAMBDA x : ~preferredEntry(x))
            = SelectSeq(last.args.found, LAMBDA x : ~preferredEntry(x))

\* two rules match, the first one's code was moved to the front past an
\* entry the second rule prefers
C25_Witness ==
  /\ last.op = "prefer" /\ Cardinality(matching) = 2
  /\ last.out # last.args.found
  /\ Len(last.out) = 3 /\ last.out[1].pos = <<"3","0","0">>
  /\ last.out[2].pos = <<"1","c">> /\ last.out[3].pos = <<"5","4">>
  /\ last.args.found[3].pos = <<"3","0","0">>

\* ------------------------------------------------------------------------
\* C26
\* ------------------------------------------------------------------------
\* C26 as stated: the candidates after the add-on merge are never more than
\* the configured limit of 12.
C26_WithinLimit ==
  last.op = "candidates" => Len(last.out) <= DEFAULT_LIMIT

\* C26 as amended: the Finder's output is never more than the limit of 12;
\* the candidates after the add-on merge are never more than that limit plus
\* the add-ons derived for the query, of which there are at most four (16 in
\* all); what exceeds the Finder's output is an add-on.
C26_LimitPlusAddOns ==
  last.op = "candidates"
    => /\ Len(findCandidates(last.args.text, last.args.payer, DEFAULT_LIMIT,
                             last.args.fuse)) <= DEFAULT_LIMIT
       /\ Len(last.out) <= DEFAULT_LIMIT + Len(deriveAddOns(last.args.text, last.args.payer))
       /\ Len(deriveAddOns(last.args.text, last.args.payer)) <= 4
       /\ Len(last.out) <= DEFAULT_LIMIT + 4
       /\ \A i \in 1..Len(last.out) :
            \/ last.out[i] \in Range(deriveAddOns(last.args.text, last.args.payer))
            \/ last.out[i] \in Range(findCandidates(last.args.text, last.args.payer,
                                                     DEFAULT_LIMIT, last.args.fuse))

\* the Finder returned twelve entries, its limit, and the four add-ons were
\* merged in: sixteen candidates
C26_Witness ==
  /\ last.op = "candidates" /\ last.args.payer = SVS
  /\ Len(findCandidates(last.args.text, last.args.payer, DEFAULT_LIMIT,
                        last.args.fuse)) = DEFAULT_LIMIT
  /\ Len(deriveAddOns(last.args.text, last.args.payer)) = 4
  /\ Len(last.out) = DEFAULT_LIMIT + 4

\* ------------------------------------------------------------------------
\* C27
\* ------------------------------------------------------------------------
\* the model answered with a non-empty reply (content, trimmed)
replied == answered /\ last.branch \in {"success", "clarification"}
legalReply == codeTokens(trim(last.reply)) \subseteq posCodes(last.candidates)

\* C27: a non-empty reply is returned as it is exactly when each of its
\* code-shaped tokens is, letter case aside, the position code of a
\* candidate; otherwise the clarification table replaces it, naming the
\* tokens that are not, whatever the numbers stand for.
C27_ExactlyWhen ==
  replied
    => /\ trim(last.reply) # <<>>
       /\ legalReply <=> (last.resp.tag = "model" /\ last.resp.output = trim(last.reply))
       /\ ~legalReply <=> (last.resp.tag = "clarification" /\ last.resp.output = <<>>)
       /\ Range(last.resp.illegal) = codeTokens(trim(last.reply)) \ posCodes(last.candidates)
       /\ last.resp.status = 200

\* a reply whose only unlisted number is a points value was replaced
C27_Witness ==
  /\ replied /\ last.reply = <<"3","0","0"," ","|"," ","E","K","G"," ","i","n"," ","R","u","h","e"," ","|"," ","5"," ","P">>
  /\ <<"3","0","0">> \in posCodes(last.candidates)
  /\ last.resp.tag = "clarification" /\ last.resp.illegal = <<<<"5">>>>

\* a reply writing the code 1c as 1C was returned
C27_CaseWitness ==
  /\ replied /\ last.reply = <<"1","C",";"," ","3","0","0">> /\ last.resp.tag = "model"
  /\ last.resp.output = <<"1","C",";"," ","3","0","0">>

\* ------------------------------------------------------------------------
\* C28
\* ------------------------------------------------------------------------
\* the keys whose entry a step created, overwrote or deleted; the keys of the
\* requests that acted in the step; the request that arrived in the step
touched ==
  {k \in DOMAIN sessionStore \cup DOMAIN sessionStore' :
     entryOf(sessionStore, k) # entryOf(sessionStore', k)}
actors ==
  IF last = NoAnswer /\ last' # NoAnswer THEN {sessionKey(last'.tok, <<"1","0",".","0",".","0",".","1">>)}
  ELSE {reqs'[s].key : s \in {t \in Slots : reqs'[t] # reqs[t]}}
arrivedReq ==
  IF last' # NoAnswer THEN last' ELSE reqs'[CHOOSE s \in Slots : reqs'[s] # reqs[s]]
\* the request that arrived went on to the follow-up merge
pastStep1 == last' = NoAnswer \/ last'.branch \notin {"noPrompt", "noApiKey"}

servedAlone ==
  /\ answered /\ ~last.overlap
  /\ last.branch \notin {"auth", "noPrompt", "noApiKey"}
endedAsking == last.branch \in {"bare", "payerOnly", "preQ", "clarification", "caught"}

\* C29: after a request served alone, a pending entry exists under its key
\* exactly when it ended in a clarification (bare-duration, payer-only,
\* early or "Unklar" question, validator substitution) or in the 500 of the
\* catch block, and the entry is the one it stored; after a success, a
\* shortcut answer or a 502 there is none, whatever was there at arrival.
C29_PendingIffAsked ==
  servedAlone
    => /\ (last.after # <<>>) <=> endedAsking
       /\ entryOf(sessionStore, last.key) = last.after
       /\ endedAsking => (last.after[1].by = last.id /\ last.after[1].ts = now)
       /\ last.branch \in {"success", "shortcut", "upstream"} => last.after = <<>>
       /\ endedAsking
            => /\ (last.branch = "caught") <=> (last.resp.status = 500)
               /\ (last.branch # "caught") <=> (last.resp.status = 200)

\* a follow-up found a pending entry, reached the model and got a 502: the
\* entry is gone
C29_Witness ==
  /\ servedAlone /\ last.branch = "upstream" /\ last.resp.status = 502
  /\ last.pending # <<>> /\ last.after = <<>>
  /\ last.key \notin DOMAIN sessionStore

\* a follow-up was answered by the shortcut and by a success
C29_ClearedWitness ==
  /\ servedAlone /\ last.branch \in {"success", "shortcut"}
  /\ last.pending # <<>> /\ last.after = <<>>

\* ------------------------------------------------------------------------
\* C30
\* ------------------------------------------------------------------------
\* the caller's pending entry
chainEntry == entryOf(sessionStore, <<"u","1">>)

\* C30 as stated: while a chain of clarifications is open, the stored prompt
\* is the chain's inputs joined by spaces in arrival order, or "(<payer>)"
\* when the payer-only guard has just fired, and its timestamp is that of
\* the latest clarification.
C30_AllInputs ==
  (last.op = "chain" /\ last.open /\ last.asked)
    => /\ chainEntry # <<>>
       /\ chainEntry[1].ts = last.ts
       /\ chainEntry[1].prompt =
            IF last.branch = "payerOnly" THEN last.parts[1]
            ELSE joinWith(last.inputs, <<" ">>)

\* C30 as amended: in a chain that began with a request finding no live
\* pending entry, the stored prompt is the chain's inputs joined by
\* spaces in arrival order, the inputs up to and including a payer-only
\* answer being replaced by "(<payer>)"; its timestamp is that of the latest
\* clarification, from which the TTL runs.
C30_ChainJoined ==
  (last.op = "chain" /\ last.open /\ last.asked)
    => /\ chainEntry # <<>>
       /\ chainEntry[1].ts = last.ts
       /\ chainEntry[1].prompt = joinWith(last.parts, <<" ">>)
       /\ chainEntry[1].by = started

\* three clarifications in a row, each within the TTL of the one before; the
\* entry holds the three inputs and is alive more than five minutes after the
\* first request
C30_Witness ==
  /\ last.op = "chain" /\ last.open /\ last.asked /\ Len(last.inputs) = 3
  /\ last.parts = last.inputs
  /\ chainEntry # <<>>
  /\ chainEntry[1].prompt = joinWith(last.inputs, <<" ">>)
  /\ now - last.first > FOLLOWUP_TTL_MS
  /\ now - chainEntry[1].ts < FOLLOWUP_TTL_MS

\* a chain that went on after a payer-only answer
C30_PayerWitness ==
  /\ last.op = "chain" /\ last.open /\ last.asked /\ Len(last.inputs) = 3
  /\ last.parts # last.inputs /\ Len(last.parts) > 1
  /\ chainEntry # <<>> /\ chainEntry[1].prompt = joinWith(last.parts, <<" ">>)
====
